---------------------------- MODULE Spec2Model ----------------------------
(***************************************************************************)
(* Ouroboros tool loop: tool dispatch (ouroboros/loop.py) and the model    *)
(* fallback wrapper (ouroboros/llm.py).                                    *)
(*                                                                         *)
(* Spec      : tool dispatch, _handle_tool_calls and what it calls         *)
(* FairSpec  : Spec with the scheduling the thread pools and the timed     *)
(*             waits guarantee                                             *)
(* LLMSpec   : LLMInterface.run_model with _handle_fallback                *)
(***************************************************************************)
EXTENDS Naturals, Integers, Sequences, FiniteSets, TLC

(***************************************************************************)
(* Bounds of the model.                                                    *)
(***************************************************************************)
MaxBatch == 2
MaxRounds == 2
MaxChain == 3
MaxAttempts == 5

(***************************************************************************)
(* Program constants.                                                      *)
(***************************************************************************)
READ_ONLY_PARALLEL_TOOLS ==
    {"repo_read", "repo_list", "drive_read", "drive_list",
     "web_search", "codebase_digest", "chat_history"}

STATEFUL_BROWSER_TOOLS == {"browse_page", "browser_action"}

\* ThreadPoolExecutor(max_workers=min(len(tool_calls), 8))
MAX_POOL_WORKERS == 8

\* ThreadPoolExecutor(max_workers=1, thread_name_prefix="stateful_tool")
STATEFUL_LANE_WORKERS == 1

\* Tool names the model draws calls from: a read-only tool, both stateful
\* tools and a tool of neither class.
ToolNames == {"repo_read", "browse_page", "browser_action", "run_shell"}

\* Model identifiers and fallback chains the model draws from.
Models == {"m1", "m2", "m3"}

VARIABLES
    \* ---- tool dispatch ----
    round,              \* rounds dispatched so far
    mode,               \* position of _handle_tool_calls: "idle", "seq", "par",
                        \* "done", "draining" (the shutdown after an
                        \* exception), "raised"
    tool_calls,         \* the batch of the round: sequence of [id, name]
    results,            \* the results list, None where not yet stored
    futures,            \* parallel path: the pool's future of each call;
                        \* its work item is "queued", "taken" by a worker or
                        \* "drained" by the shutdown while the future is
                        \* pending
    handlers,           \* _execute_single_tool runs submitted and not finished
    stateful_executor,  \* _StatefulToolExecutor._executor: 0 is None
    lane_seq,           \* executors the sticky lane has created so far
    messages,           \* tool-response messages appended to the message list
    completion,         \* history: indexes in the order their calls completed
    writes,             \* history: stores made to each position of results
    \* ---- model call with fallback ----
    llm_pc,             \* "attempt", "pricing" (inside the try block),
                        \* "returned", "raised"
    ctx_model,          \* ctx.model
    current_provider,   \* ctx.current_provider
    provider_chain,     \* ctx.provider_chain
    attempt_log,        \* history: [model, provider] of every run_model entry
    errors,             \* history: the error each failed attempt raised
    raised_error,       \* the error that left run_model, NoError if none
    response,           \* the model the returned response came from; ""
                        \* while run_model has returned none
    pending_events,     \* ctx.pending_events: models of the llm_usage events
    run_args,           \* system, prompt, images of the current run_model entry
    \* ---- _check_budget_limits ----
    bud_pc,             \* "check", "returned"
    budget_given,       \* budget_remaining_usd is not None
    budget_remaining_usd, \* in cents
    task_cost,          \* accumulated_usage["cost"], in cents
    round_idx,
    bud_messages,       \* the system messages the check appended
    bud_llm_calls,      \* the _call_llm_with_retry calls the check made
    bud_result,         \* what the check returned
    \* ---- apply_message_token_soft_cap ----
    cap_pc,             \* "input", "done"
    cap_messages,       \* the messages argument
    soft_cap_tokens,
    cap_out,            \* the returned (messages, cap_info)
    \* ---- get_dynamic_context_limit ----
    lim_pc,             \* "call", "done"
    model_id,           \* a string, as the sequence of its characters
    task_type,
    lim_out,            \* the returned limit
    \* ---- _get_pricing ----
    pricing_fetched,    \* _pricing_fetched
    cached_pricing,     \* _cached_pricing: 0 for None, else an index of dicts
    dicts,              \* the dict objects made so far; dicts[1] is the static table
    pricing_lock,       \* the thread holding _pricing_lock, 0 if free
    threads,            \* per thread: position in _get_pricing, calls made
    fetches,            \* history: outcome of every fetch_openrouter_pricing call
    returned_tables,    \* history: the dict each _get_pricing call returned
    \* ---- _estimate_cost ----
    cost_pc,            \* "call" (line 83, _get_pricing included), "for",
                        \* "loop", "done"
    cost_table,         \* model_pricing: the dict _get_pricing returned, an
                        \* index of dicts, 0 before it returned
    cost_loop,          \* the for loop: the items of the dict as the call
                        \* last read them, the iterator, best_match and
                        \* best_length
    cost_model,         \* the model argument, a sequence of characters
    cost_tokens,        \* prompt_tokens, cached_tokens, completion_tokens
    cost_out,           \* the selected pricing entry and the returned cost
    \* ---- _execute_single_tool, _execute_with_timeout, one call at a time ----
    ex_pc,              \* the dispatcher: "call", "wait", "timeout", "done",
                        \* "raised"
    ex_calls,           \* the batch: [name, arguments, handler, logs, sink]
                        \* per call
    ex_idx,             \* the call being executed
    ex_results,         \* the results returned so far
    ex_raised,          \* the exception that left the dispatch, "None" if none
    ex_workers,         \* the workers inside _execute_single_tool: [call, pc]
    tools_log,          \* tools.jsonl
    events_log,         \* events.jsonl
    event_queue,        \* ctx.event_queue, the usage-event sink
    \* ---- the worker pool of a parallel batch ----
    pool_pc,            \* "submit", "collect", "draining", "done", "raised"
    pool_calls,         \* the batch: the tool name of each call
    pool_futures,       \* per submitted call: "pending", "taken", "running",
                        \* "done", "drained", "cancelled"
    pool_results,       \* the results list, None where not yet stored
    \* ---- _maybe_inject_self_check ----
    sc_pc,              \* "check", "returned", "raised" (TypeError)
    sc_round_idx,       \* round_idx
    sc_messages,        \* the messages argument
    sc_usage,           \* accumulated_usage["cost"], in cents
    sc_progress,        \* the emit_progress calls made
    \* ---- the emitters of llm_usage events ----
    usage_events        \* the llm_usage events emitted: [source, model]

toolVars == <<round, mode, tool_calls, results, futures, handlers,
              stateful_executor, lane_seq, messages, completion, writes>>

llmVars == <<llm_pc, ctx_model, current_provider, provider_chain,
             attempt_log, errors, raised_error, response, pending_events,
             run_args>>

budgetVars == <<bud_pc, budget_given, budget_remaining_usd, task_cost,
                round_idx, bud_messages, bud_llm_calls, bud_result>>

capVars == <<cap_pc, cap_messages, soft_cap_tokens, cap_out>>

limitVars == <<lim_pc, model_id, task_type, lim_out>>

pricingVars == <<pricing_fetched, cached_pricing, dicts, pricing_lock,
                 threads, fetches, returned_tables>>

costVars == <<cost_pc, cost_table, cost_loop, cost_model, cost_tokens,
              cost_out>>

execVars == <<ex_pc, ex_calls, ex_idx, ex_results, ex_raised, ex_workers,
              tools_log, events_log, event_queue>>

poolVars == <<pool_pc, pool_calls, pool_futures, pool_results>>

selfVars == <<sc_pc, sc_round_idx, sc_messages, sc_usage, sc_progress>>

usageVars == <<usage_events>>

vars == <<toolVars, llmVars, budgetVars, capVars, limitVars, pricingVars,
          costVars, execVars, poolVars, selfVars, usageVars>>

\* What the actions of one part leave unchanged.
nonToolVars == <<llmVars, budgetVars, capVars, limitVars, pricingVars,
                 costVars, execVars, poolVars, selfVars, usageVars>>

nonLLMVars == <<toolVars, budgetVars, capVars, limitVars, pricingVars,
                costVars, execVars, poolVars, selfVars, usageVars>>

nonBudgetVars == <<toolVars, llmVars, capVars, limitVars, pricingVars,
                   costVars, execVars, poolVars, selfVars, usageVars>>

nonCapVars == <<toolVars, llmVars, budgetVars, limitVars, pricingVars,
                costVars, execVars, poolVars, selfVars, usageVars>>

nonLimitVars == <<toolVars, llmVars, budgetVars, capVars, pricingVars,
                  costVars, execVars, poolVars, selfVars, usageVars>>

nonPricingVars == <<toolVars, llmVars, budgetVars, capVars, limitVars,
                    costVars, execVars, poolVars, selfVars, usageVars>>

nonCostVars == <<toolVars, llmVars, budgetVars, capVars, limitVars,
                 pricingVars, execVars, poolVars, selfVars, usageVars>>

nonExecVars == <<toolVars, llmVars, budgetVars, capVars, limitVars,
                 pricingVars, costVars, poolVars, selfVars, usageVars>>

nonPoolVars == <<toolVars, llmVars, budgetVars, capVars, limitVars,
                 pricingVars, costVars, execVars, selfVars, usageVars>>

nonSelfVars == <<toolVars, llmVars, budgetVars, capVars, limitVars,
                 pricingVars, costVars, execVars, poolVars, usageVars>>

nonUsageVars == <<toolVars, llmVars, budgetVars, capVars, limitVars,
                  pricingVars, costVars, execVars, poolVars, selfVars>>

(***************************************************************************)
(* Helpers.                                                                *)
(***************************************************************************)
Min(a, b) == IF a <= b THEN a ELSE b

Range(s) == {s[i] : i \in 1..Len(s)}

\* list.index(x): the first position holding x (0 when x is not in the list,
\* where Python raises ValueError).
IndexOf(s, x) ==
    IF x \in Range(s)
    THEN CHOOSE i \in 1..Len(s) : s[i] = x /\ \A j \in 1..(i - 1) : s[j] # x
    ELSE 0

\* None in the results list.
NoResult ==
    [tool_call_id |-> 0, fn_name |-> "", kind |-> "none",
     is_error |-> FALSE, reset |-> FALSE]

\* The id of the call at position i of the batch of round r.
CallId(r, i) == r * (MaxBatch + 1) + i

Batches == UNION {[1..n -> ToolNames] : n \in 1..MaxBatch}

(***************************************************************************)
(* _handle_tool_calls: the parallel/sequential decision.                   *)
(***************************************************************************)
CanParallelLenOnly(calls) == Len(calls) > 1

CanParallelAny(calls) ==
    /\ Len(calls) > 1
    /\ \E i \in 1..Len(calls) : calls[i].name \in READ_ONLY_PARALLEL_TOOLS

can_parallel(calls) ==
    /\ Len(calls) > 1
    /\ \A i \in 1..Len(calls) : calls[i].name \in READ_ONLY_PARALLEL_TOOLS

\* max_workers = min(len(tool_calls), 8)
max_workers(calls) == Min(Len(calls), MAX_POOL_WORKERS)

\* use_stateful = stateful_executor and fn_name in STATEFUL_BROWSER_TOOLS
\* (the executor object is always passed and is truthy).
use_stateful(name) == name \in STATEFUL_BROWSER_TOOLS

(***************************************************************************)
(* Results.                                                                *)
(***************************************************************************)
\* How a run of _execute_single_tool that returns can end: the handler
\* returned a text, returned a text that starts with the warning sign, or
\* raised (the TOOL_ERROR text), or the arguments were not valid JSON (the
\* TOOL_ARG_ERROR text).
HandlerOutcomes == {"ok", "warning", "raises", "arg_error"}

\* The dictionary _execute_single_tool returns:
\* is_error = (not tool_ok) or str(result).startswith(warning sign), and
\* True on the argument-error return.
SingleToolResult(h, outcome) ==
    [tool_call_id |-> h.id, fn_name |-> h.name, kind |-> "result",
     is_error |-> outcome # "ok", reset |-> FALSE]

\* _make_timeout_result; reset is TRUE when reset_msg is
\* "Browser state has been reset. ".
MakeTimeoutResult(h, reset_msg) ==
    [tool_call_id |-> h.id, fn_name |-> h.name, kind |-> "timeout",
     is_error |-> TRUE, reset |-> reset_msg]

\* results[idx] = future.result()
StoreResultAppend(res, idx, r) ==
    LET free == {i \in 1..Len(res) : res[i] = NoResult}
        first == CHOOSE i \in free : \A j \in free : i <= j
    IN  [res EXCEPT ![first] = r]

StoreResult(res, idx, r) == [res EXCEPT ![idx] = r]

(***************************************************************************)
(* _StatefulToolExecutor.                                                  *)
(***************************************************************************)
\* submit without the test for an existing executor: a new one per call.
SubmitLaneAlwaysNew(executor, seq) == seq + 1

\* submit: the executor the task goes to, created when there is none.
SubmitLane(executor, seq) == IF executor = 0 THEN seq + 1 ELSE executor

\* reset: shutdown(wait=False, cancel_futures=True), then _executor = None.
ResetKeepsExecutor(executor) == executor

Reset(executor) == 0

Awaited == {h \in handlers : h.awaited}

Running == {h \in handlers : h.status = "running"}

\* A worker of the handler's executor is free: a single-use executor
\* (lane 0) is fresh, the sticky lane has STATEFUL_LANE_WORKERS workers.
WorkerFree(h) ==
    \/ h.lane = 0
    \/ Cardinality({g \in Running : g.lane = h.lane}) < STATEFUL_LANE_WORKERS

(***************************************************************************)
(* Initial state.                                                          *)
(***************************************************************************)
NoError == [kind |-> "none", attempt |-> 0]

ToolInit ==
    /\ round = 0
    /\ mode = "idle"
    /\ tool_calls = <<>>
    /\ results = <<>>
    /\ futures = <<>>
    /\ handlers = {}
    /\ stateful_executor = 0
    /\ lane_seq = 0
    /\ messages = <<>>
    /\ completion = <<>>
    /\ writes = <<>>

\* run_model's defaults: system, prompt and images are None.
NoArgs == [system |-> "None", prompt |-> "None", images |-> "None"]

LLMIdle ==
    /\ llm_pc = "idle"
    /\ run_args = NoArgs
    /\ ctx_model = "m1"
    /\ current_provider = "m1"
    /\ provider_chain = <<>>
    /\ attempt_log = <<>>
    /\ errors = <<>>
    /\ raised_error = NoError
    /\ response = ""
    /\ pending_events = <<>>

\* No _check_budget_limits call.
NoReturn == [returned |-> "nothing", text |-> ""]

BudgetIdle ==
    /\ bud_pc = "idle"
    /\ budget_given = FALSE
    /\ budget_remaining_usd = 0
    /\ task_cost = 0
    /\ round_idx = 0
    /\ bud_messages = <<>>
    /\ bud_llm_calls = <<>>
    /\ bud_result = NoReturn

NoCapOut == [messages |-> <<>>, cap_info |-> [requested |-> 0, actual |-> 0]]

CapIdle ==
    /\ cap_pc = "idle"
    /\ cap_messages = <<>>
    /\ soft_cap_tokens = 0
    /\ cap_out = NoCapOut

LimitIdle ==
    /\ lim_pc = "idle"
    /\ model_id = <<>>
    /\ task_type = "user"
    /\ lim_out = 0

PricingIdle ==
    /\ pricing_fetched = FALSE
    /\ cached_pricing = 0
    /\ dicts = <<>>
    /\ pricing_lock = 0
    /\ threads = <<>>
    /\ fetches = <<>>
    /\ returned_tables = <<>>

\* a pricing entry: the 3-tuple of the static table, the 2-key dict of a
\* live table, or None; prices in thousandths of a dollar per million tokens
NoEntry == [kind |-> "None", prices |-> <<>>]

NoTokens == [prompt |-> 0, cached |-> 0, completion |-> 0]

\* cost in millionths of a dollar
NoCostOut == [pricing |-> NoEntry, cost |-> 0, raised |-> "None"]

\* no dict read, no iterator made, nothing matched
NoLoop ==
    [seen |-> <<>>, pos |-> 0, used |-> 0, best_match |-> NoEntry,
     best_length |-> 0]

CostIdle ==
    /\ cost_pc = "idle"
    /\ cost_table = 0
    /\ cost_loop = NoLoop
    /\ cost_model = <<>>
    /\ cost_tokens = NoTokens
    /\ cost_out = NoCostOut

ExecIdle ==
    /\ ex_pc = "idle"
    /\ ex_calls = <<>>
    /\ ex_idx = 0
    /\ ex_results = <<>>
    /\ ex_raised = "None"
    /\ ex_workers = {}
    /\ tools_log = <<>>
    /\ events_log = <<>>
    /\ event_queue = <<>>

PoolIdle ==
    /\ pool_pc = "idle"
    /\ pool_calls = <<>>
    /\ pool_futures = <<>>
    /\ pool_results = <<>>

SelfCheckIdle ==
    /\ sc_pc = "idle"
    /\ sc_round_idx = 0
    /\ sc_messages = <<>>
    /\ sc_usage = 0
    /\ sc_progress = <<>>

UsageIdle == usage_events = <<>>

AdvisoryIdle == SelfCheckIdle /\ UsageIdle

DispatchIdle == ExecIdle /\ PoolIdle /\ AdvisoryIdle

OthersIdle ==
    BudgetIdle /\ CapIdle /\ LimitIdle /\ PricingIdle /\ CostIdle
    /\ DispatchIdle

Init == ToolInit /\ LLMIdle /\ OthersIdle

(***************************************************************************)
(* Tool dispatch actions.                                                  *)
(***************************************************************************)
\* _handle_tool_calls is entered with the batch of the round.
StartBatch ==
    /\ mode = "idle"
    /\ round < MaxRounds
    /\ \E b \in Batches :
         LET calls == [i \in 1..Len(b) |->
                          [id |-> CallId(round + 1, i), name |-> b[i]]]
         IN  /\ tool_calls' = calls
             /\ results' = [i \in 1..Len(b) |-> NoResult]
             /\ writes' = [i \in 1..Len(b) |-> 0]
             /\ IF can_parallel(calls)
                THEN /\ mode' = "par"
                     /\ futures' = [i \in 1..Len(b) |->
                                       [state |-> "queued", value |-> NoResult]]
                ELSE /\ mode' = "seq"
                     /\ futures' = <<>>
    /\ round' = round + 1
    /\ completion' = <<>>
    /\ UNCHANGED <<handlers, stateful_executor, lane_seq, messages>>
    /\ UNCHANGED nonToolVars

\* The entry of _execute_with_timeout for the call at position i: the
\* handler is submitted to the sticky lane or to a fresh single-use executor.
Submit(i) ==
    LET tc == tool_calls[i]
        lane == IF use_stateful(tc.name)
                THEN SubmitLane(stateful_executor, lane_seq)
                ELSE 0
    IN  /\ handlers' = handlers \cup
              {[id |-> tc.id, idx |-> i, name |-> tc.name, lane |-> lane,
                status |-> "queued", awaited |-> TRUE]}
        /\ IF use_stateful(tc.name)
           THEN /\ stateful_executor' = lane
                /\ lane_seq' = IF stateful_executor = 0
                               THEN lane_seq + 1 ELSE lane_seq
           ELSE UNCHANGED <<stateful_executor, lane_seq>>

\* Sequential path: the list comprehension calls _execute_with_timeout for
\* the next call once the previous call has returned.
SeqDispatch ==
    /\ mode = "seq"
    /\ Awaited = {}
    /\ \E i \in 1..Len(tool_calls) :
         /\ results[i] = NoResult
         /\ \A j \in 1..(i - 1) : results[j] # NoResult
         /\ Submit(i)
    /\ UNCHANGED <<round, mode, tool_calls, results, futures, messages,
                   completion, writes>>
    /\ UNCHANGED nonToolVars

\* The oldest work item in the pool's queue.
OldestQueued(futs, i) ==
    /\ futs[i].state = "queued"
    /\ \A j \in 1..(i - 1) : futs[j].state # "queued"

\* The pool workers busy with a work item.
BusyWorkers(futs) ==
    {j \in 1..Len(futs) : futs[j].state \in {"taken", "running"}}

\* Parallel path: a pool worker takes the oldest work item from the queue
\* (work_queue.get); the pool has max_workers threads at most.  The workers
\* go on taking work while the pool is shut down.
PoolTake ==
    /\ mode \in {"par", "draining"}
    /\ \E i \in 1..Len(tool_calls) :
         /\ OldestQueued(futures, i)
         /\ Cardinality(BusyWorkers(futures)) < max_workers(tool_calls)
         /\ futures' = [futures EXCEPT ![i].state = "taken"]
    /\ UNCHANGED <<round, mode, tool_calls, results, handlers,
                   stateful_executor, lane_seq, messages, completion, writes>>
    /\ UNCHANGED nonToolVars

\* The worker runs its work item: the future is running and
\* _execute_with_timeout is entered for the call.
PoolDispatch ==
    /\ \E i \in 1..Len(futures) :
         /\ futures[i].state = "taken"
         /\ futures' = [futures EXCEPT ![i].state = "running"]
         /\ Submit(i)
    /\ UNCHANGED <<round, mode, tool_calls, results, messages, completion,
                   writes>>
    /\ UNCHANGED nonToolVars

\* A worker thread of the handler's executor starts _execute_single_tool.
HandlerStart ==
    /\ \E h \in handlers :
         /\ h.status = "queued"
         /\ WorkerFree(h)
         /\ handlers' = (handlers \ {h}) \cup {[h EXCEPT !.status = "running"]}
    /\ UNCHANGED <<round, mode, tool_calls, results, futures,
                   stateful_executor, lane_seq, messages, completion, writes>>
    /\ UNCHANGED nonToolVars

\* _execute_with_timeout returns r for the call at position i: to the list
\* comprehension on the sequential path, to the pool's future on the
\* parallel path.
AllStored(res) == \A i \in 1..Len(res) : res[i] # NoResult

Deliver(i, r) ==
    /\ completion' = Append(completion, i)
    /\ IF mode = "seq"
       THEN /\ results' = StoreResult(results, i, r)
            /\ writes' = [writes EXCEPT ![i] = @ + 1]
            /\ mode' = IF i = Len(tool_calls) THEN "done" ELSE "seq"
            /\ UNCHANGED futures
       ELSE /\ futures' = [futures EXCEPT ![i] = [state |-> "done", value |-> r]]
            /\ UNCHANGED <<results, writes, mode>>

\* The handler returns while its call is awaited: future.result(timeout)
\* returns the handler's result.
HandlerReturn ==
    /\ \E h \in handlers, outcome \in HandlerOutcomes :
         /\ h.status = "running"
         /\ h.awaited
         /\ handlers' = handlers \ {h}
         /\ Deliver(h.idx, SingleToolResult(h, outcome))
    /\ UNCHANGED <<round, tool_calls, stateful_executor, lane_seq, messages>>
    /\ UNCHANGED nonToolVars

\* _execute_single_tool raises (json.loads on arguments that are not a
\* string): future.result(timeout) re-raises and the exception leaves
\* _execute_with_timeout.  On the sequential path it leaves
\* _handle_tool_calls at once; on the parallel path it is kept in the
\* pool's future, also when the dispatcher has left already.
HandlerRaises ==
    /\ \E h \in handlers :
         /\ h.status = "running"
         /\ h.awaited
         /\ handlers' = handlers \ {h}
         /\ IF mode = "seq"
            THEN /\ mode' = "raised"
                 /\ UNCHANGED <<futures, completion>>
            ELSE /\ futures' = [futures EXCEPT ![h.idx].state = "raised"]
                 /\ completion' = Append(completion, h.idx)
                 /\ UNCHANGED mode
    /\ UNCHANGED <<round, tool_calls, results, stateful_executor, lane_seq,
                   messages, writes>>
    /\ UNCHANGED nonToolVars

\* A handler whose call timed out finishes in the background.
BackgroundReturn ==
    /\ \E h \in handlers :
         /\ h.status = "running"
         /\ ~h.awaited
         /\ handlers' = handlers \ {h}
    /\ UNCHANGED <<round, mode, tool_calls, results, futures,
                   stateful_executor, lane_seq, messages, completion, writes>>
    /\ UNCHANGED nonToolVars

\* What a timed-out call leaves behind: work the executor had not started
\* is cancelled (cancel_futures=True), a running handler keeps running.
Background == {h \in handlers : ~h.awaited}

Abandoned(h) ==
    IF h.status = "running"
    THEN {[h EXCEPT !.awaited = FALSE]}
    ELSE {}

\* future.result(timeout=timeout_sec) raises TimeoutError for handler h.
\* Stateful: the lane is reset and the result says so.
TimeoutStatelessOnly(h) ==
    /\ h.awaited
    /\ ~use_stateful(h.name)
    /\ handlers' = (handlers \ {h}) \cup Abandoned(h)
    /\ UNCHANGED <<stateful_executor, lane_seq>>
    /\ Deliver(h.idx, MakeTimeoutResult(h, FALSE))

Timeout(h) ==
    /\ h.awaited
    /\ IF use_stateful(h.name)
       THEN /\ stateful_executor' = Reset(stateful_executor)
            /\ handlers' =
                 {g \in handlers \ {h} :
                     ~(g.lane = h.lane /\ g.status = "queued")}
                 \cup Abandoned(h)
            /\ Deliver(h.idx, MakeTimeoutResult(h, TRUE))
       ELSE /\ UNCHANGED stateful_executor
            /\ handlers' = (handlers \ {h}) \cup Abandoned(h)
            /\ Deliver(h.idx, MakeTimeoutResult(h, FALSE))
    /\ UNCHANGED lane_seq

ToolTimeout ==
    /\ \E h \in handlers : Timeout(h)
    /\ UNCHANGED <<round, tool_calls, messages>>
    /\ UNCHANGED nonToolVars

\* The as_completed loop: every future is waited for.
AllCollectedFirstOnly(futs) ==
    \E i \in 1..Len(futs) : futs[i].state = "collected"

AllCollected(futs) ==
    \A i \in 1..Len(futs) : futs[i].state = "collected"

\* for future in as_completed(future_to_index): results[idx] = future.result()
\* future.result() returns the result, or re-raises the exception of the
\* call: the finally clause is entered.  The pool workers of the other
\* calls stay inside _execute_with_timeout, waiting for their handlers.
Collect ==
    /\ mode = "par"
    /\ \E i \in 1..Len(tool_calls) :
         \/ /\ futures[i].state = "done"
            /\ results' = StoreResult(results, i, futures[i].value)
            /\ writes' = [writes EXCEPT ![i] = @ + 1]
            /\ futures' = [futures EXCEPT ![i].state = "collected"]
            /\ mode' = IF AllCollected(futures') THEN "done" ELSE "par"
            /\ UNCHANGED handlers
         \/ /\ futures[i].state = "raised"
            /\ mode' = "draining"
            /\ UNCHANGED <<results, writes, futures, handlers>>
    /\ UNCHANGED <<round, tool_calls, stateful_executor, lane_seq,
                   messages, completion>>
    /\ UNCHANGED nonToolVars

\* executor.shutdown(wait=False, cancel_futures=True) of the pool, one
\* statement at a time: get_nowait takes the oldest work item from the
\* queue, future.cancel() cancels it, and with the queue empty the
\* exception leaves _handle_tool_calls.  The workers take work items from
\* the same queue meanwhile.
DrainStep(futs) ==
    IF \E i \in 1..Len(futs) : futs[i].state = "drained"
    THEN [i \in 1..Len(futs) |->
             IF futs[i].state = "drained"
             THEN [futs[i] EXCEPT !.state = "cancelled"]
             ELSE futs[i]]
    ELSE [i \in 1..Len(futs) |->
             IF OldestQueued(futs, i)
             THEN [futs[i] EXCEPT !.state = "drained"]
             ELSE futs[i]]

PoolShutdown ==
    /\ mode = "draining"
    /\ futures' = DrainStep(futures)
    /\ mode' = IF futures' = futures THEN "raised" ELSE "draining"
    /\ UNCHANGED <<round, tool_calls, results, handlers, stateful_executor,
                   lane_seq, messages, completion, writes>>
    /\ UNCHANGED nonToolVars

\* _process_tool_results: one tool-response message per result, in the
\* order of the results list; _handle_tool_calls returns.
ToolMessages(res) ==
    [i \in 1..Len(res) |->
        [role |-> "tool", tool_call_id |-> res[i].tool_call_id]]

ProcessToolResults ==
    /\ mode = "done"
    /\ messages' = messages \o ToolMessages(results)
    /\ mode' = "idle"
    /\ tool_calls' = <<>>
    /\ results' = <<>>
    /\ futures' = <<>>
    /\ completion' = <<>>
    /\ writes' = <<>>
    /\ UNCHANGED <<round, handlers, stateful_executor, lane_seq>>
    /\ UNCHANGED nonToolVars

\* _StatefulToolExecutor.shutdown(wait, cancel_futures), called by the
\* owner of the lane between two dispatches: the executor is shut down and
\* _executor is None again.  Nothing when there is no executor.
Shutdown(executor) == 0

LaneShutdown ==
    /\ mode = "idle"
    /\ stateful_executor # 0
    /\ stateful_executor' = Shutdown(stateful_executor)
    /\ UNCHANGED <<round, mode, tool_calls, results, futures, handlers,
                   lane_seq, messages, completion, writes>>
    /\ UNCHANGED nonToolVars

Next ==
    \/ StartBatch
    \/ SeqDispatch
    \/ PoolTake
    \/ PoolDispatch
    \/ HandlerStart
    \/ HandlerReturn
    \/ HandlerRaises
    \/ BackgroundReturn
    \/ ToolTimeout
    \/ Collect
    \/ PoolShutdown
    \/ ProcessToolResults
    \/ LaneShutdown

Spec == Init /\ [][Next]_vars

\* The scheduling the code relies on: pool and lane workers pick up
\* submitted work, a timed wait expires, and the dispatching thread runs.
\* A handler is not required to return.
FairSpec ==
    /\ Spec
    /\ WF_vars(SeqDispatch)
    /\ WF_vars(PoolTake)
    /\ WF_vars(PoolDispatch)
    /\ WF_vars(HandlerStart)
    /\ WF_vars(ToolTimeout)
    /\ WF_vars(Collect)
    /\ WF_vars(PoolShutdown)
    /\ WF_vars(ProcessToolResults)

(***************************************************************************)
(* LLMInterface.run_model and _handle_fallback.                            *)
(***************************************************************************)
Chains == UNION {[1..n -> Models] : n \in 0..MaxChain}

\* The requests the model draws: run_model called with all its arguments
\* but images, with all of them, or with none.
Requests ==
    {[system |-> "sys", prompt |-> "hello", images |-> "None"],
     [system |-> "sys", prompt |-> "hello", images |-> "img"],
     NoArgs}

LLMRequest ==
    /\ llm_pc = "attempt"
    /\ run_args \in Requests
    /\ ctx_model \in Models
    /\ current_provider \in Models
    /\ provider_chain \in Chains
    /\ attempt_log = <<>>
    /\ errors = <<>>
    /\ raised_error = NoError
    /\ response = ""
    /\ pending_events = <<>>

\* _resolve_provider: a 'openrouter:' prefix is stripped, every identifier
\* the model draws is taken as it is.
ResolveProvider(model) == [provider |-> "openrouter", model_name |-> model]

\* _handle_fallback: what it does for the chain and ctx.current_provider.
\* list.index raises ValueError when the provider is not in the chain.
HandleFallback(chain, provider) ==
    LET current_index == IndexOf(chain, provider)
    IN  IF current_index = 0
        THEN [do |-> "value_error", provider |-> provider]
        ELSE IF current_index < Len(chain)
             THEN [do |-> "retry", provider |-> chain[current_index + 1]]
             ELSE [do |-> "raise", provider |-> provider]

\* return await self.run_model(ctx): the retry is entered with the context
\* only, so system, prompt and images take their defaults.
FallbackArgs(args) == NoArgs

\* lines 128-129: run_model is entered, reads ctx.model and resolves the
\* provider
RunModelEnters ==
    /\ llm_pc = "attempt"
    /\ Len(attempt_log) < MaxAttempts
    /\ attempt_log' = Append(attempt_log,
                             [model |-> ResolveProvider(ctx_model).model_name,
                              provider |-> current_provider,
                              args |-> run_args])
    /\ llm_pc' = "pricing"
    /\ UNCHANGED <<ctx_model, current_provider, provider_chain, errors,
                   raised_error, response, pending_events, run_args>>
    /\ UNCHANGED nonLLMVars

\* The except clause: _handle_fallback handles error e of attempt n.
Fallback(e, n) ==
    LET fb == HandleFallback(provider_chain, current_provider)
    IN  /\ errors' = Append(errors, e)
        /\ run_args' = IF fb.do = "retry"
                        THEN FallbackArgs(run_args) ELSE run_args
        /\ current_provider' = fb.provider
        /\ llm_pc' = IF fb.do = "retry" THEN "attempt" ELSE "raised"
        /\ raised_error' =
             IF fb.do = "raise" THEN e
             ELSE IF fb.do = "value_error"
                  THEN [kind |-> "ValueError", attempt |-> n]
                  ELSE raised_error

\* The attempt fails as line 133 would after appending the event of the
\* call.
RunModelFailsRecorded ==
    /\ llm_pc = "pricing"
    /\ Fallback([kind |-> "pricing", attempt |-> Len(attempt_log)],
                Len(attempt_log))
    /\ pending_events' = Append(pending_events, ctx_model)
    /\ UNCHANGED <<ctx_model, provider_chain, response, attempt_log>>
    /\ UNCHANGED nonLLMVars

\* line 133: fetch_openrouter_pricing() raises NameError on its first
\* statement, time.time() (llm.py:64; the module never imports time).  The
\* exception is caught on line 158 and handed to _handle_fallback: the
\* attempt reaches neither the append of the usage event (line 145) nor the
\* API call (line 155).
RunModelFails ==
    /\ llm_pc = "pricing"
    /\ Fallback([kind |-> "pricing", attempt |-> Len(attempt_log)],
                Len(attempt_log))
    /\ UNCHANGED <<ctx_model, provider_chain, response, pending_events,
                   attempt_log>>
    /\ UNCHANGED nonLLMVars

LLMNext == RunModelEnters \/ RunModelFails

LLMInit == ToolInit /\ LLMRequest /\ OthersIdle

LLMSpec == LLMInit /\ [][LLMNext]_vars

(***************************************************************************)
(* _check_budget_limits.  Money is counted in cents.                       *)
(***************************************************************************)
\* Inputs the model draws from.
MaxBudget == 4
MaxCost == 3
RoundIdxs == {1, 10, 15, 20}

\* finish_reason, the generic budget-exhausted explanation.
FinishReason == "Budget exhausted."

\* budget_pct = task_cost / budget_remaining_usd if budget_remaining_usd > 0
\*              else 1.0;  budget_pct > 0.5
ForceFinalAt80(cost, budget) == budget <= 0 \/ 5 * cost > 4 * budget

\* The test without the else branch of budget_pct.
ForceFinalPositiveOnly(cost, budget) == budget > 0 /\ 2 * cost > budget

ForceFinal(cost, budget) == budget <= 0 \/ 2 * cost > budget

\* The advisory test without the round cadence.
AdvisoryEveryRound(cost, budget, idx) ==
    /\ ~ForceFinal(cost, budget)
    /\ 10 * cost > 3 * budget

\* budget_pct > 0.3 and round_idx % 10 == 0, on the elif branch.
Advisory(cost, budget, idx) ==
    /\ ~ForceFinal(cost, budget)
    /\ 10 * cost > 3 * budget
    /\ idx % 10 = 0

\* What _call_llm_with_retry can do: raise, return no message, or return a
\* message whose content is None, empty or a text, with or without tool
\* calls.
LastCallOutcomes ==
    {[raises |-> TRUE, has_msg |-> FALSE, content |-> "None", tool_calls |-> FALSE],
     [raises |-> FALSE, has_msg |-> FALSE, content |-> "None", tool_calls |-> FALSE]}
    \cup
    {[raises |-> FALSE, has_msg |-> TRUE, content |-> c, tool_calls |-> t] :
        c \in {"None", "", "answer"}, t \in BOOLEAN}

\* Python truthiness of the content.
Falsy(content) == content \in {"None", ""}

\* The text returned on the forced path:
\*   final_msg.get("content") or finish_reason   if final_msg
\*   finish_reason                               otherwise and on exception
FinalTextNoDefault(o, finish_reason) ==
    IF o.raises \/ ~o.has_msg THEN finish_reason ELSE o.content

FinalText(o, finish_reason) ==
    IF o.raises THEN finish_reason
    ELSE IF ~o.has_msg THEN finish_reason
    ELSE IF Falsy(o.content) THEN finish_reason
    ELSE o.content

BudgetRequest ==
    /\ bud_pc = "check"
    /\ budget_given \in BOOLEAN
    /\ budget_remaining_usd \in -1..MaxBudget
    /\ task_cost \in 0..MaxCost
    /\ round_idx \in RoundIdxs
    /\ bud_messages = <<>>
    /\ bud_llm_calls = <<>>
    /\ bud_result = NoReturn

\* The check returns None: no budget, or at most 50% spent; the advisory
\* message is appended on its cadence.
BudgetContinue ==
    /\ bud_pc = "check"
    /\ ~budget_given \/ ~ForceFinal(task_cost, budget_remaining_usd)
    /\ bud_messages' =
         IF budget_given /\ Advisory(task_cost, budget_remaining_usd, round_idx)
         THEN Append(bud_messages, [role |-> "system", kind |-> "INFO"])
         ELSE bud_messages
    /\ bud_result' = [returned |-> "None", text |-> ""]
    /\ bud_pc' = "returned"
    /\ UNCHANGED <<budget_given, budget_remaining_usd, task_cost, round_idx,
                   bud_llm_calls>>
    /\ UNCHANGED nonBudgetVars

\* More than 50% spent: the forcing message, one last call without tools,
\* and a final result whatever the call did.
BudgetForce ==
    /\ bud_pc = "check"
    /\ budget_given
    /\ ForceFinal(task_cost, budget_remaining_usd)
    /\ \E o \in LastCallOutcomes :
         /\ bud_llm_calls' = Append(bud_llm_calls,
                                    [tools |-> "None", outcome |-> o])
         /\ bud_result' = [returned |-> "final",
                           text |-> FinalText(o, FinishReason)]
    /\ bud_messages' = Append(bud_messages,
                              [role |-> "system", kind |-> "BUDGET LIMIT"])
    /\ bud_pc' = "returned"
    /\ UNCHANGED <<budget_given, budget_remaining_usd, task_cost, round_idx>>
    /\ UNCHANGED nonBudgetVars

BudgetNext == BudgetContinue \/ BudgetForce

BudgetInit ==
    ToolInit /\ LLMIdle /\ BudgetRequest /\ CapIdle /\ LimitIdle
    /\ PricingIdle /\ CostIdle /\ DispatchIdle

BudgetSpec == BudgetInit /\ [][BudgetNext]_vars


(***************************************************************************)
(* apply_message_token_soft_cap.                                           *)
(***************************************************************************)
\* Inputs the model draws from.
MaxMsgs == 4
MaxMsgTokens == 3
MaxCap == 6

\* estimate_tokens of a list of messages: the sum of the estimates of its
\* messages.
RECURSIVE EstimateTokens(_)
EstimateTokens(msgs) ==
    IF msgs = <<>> THEN 0
    ELSE Head(msgs).tokens + EstimateTokens(Tail(msgs))

\* The roles of a message list: the system message first, then the
\* history, oldest first, of user messages, assistant messages that carry
\* tool calls, and tool responses; a tool response follows the assistant
\* message it answers or another response to it.
RoleLists(n) ==
    {r \in [1..n -> {"system", "user", "assistant", "tool"}] :
        /\ r[1] = "system"
        /\ \A i \in 2..n :
              /\ r[i] # "system"
              /\ r[i] = "tool" => r[i - 1] \in {"assistant", "tool"}}

MessageLists ==
    UNION {{[i \in 1..n |->
                [id |-> i, role |-> r[i], tokens |-> w[i]]] :
            w \in [1..n -> 1..MaxMsgTokens], r \in RoleLists(n)} :
           n \in 1..MaxMsgs}

\* reversed(messages[1:])
ForwardTail(msgs) == IF msgs = <<>> THEN <<>> ELSE Tail(msgs)

ReversedTail(msgs) ==
    LET rest == IF msgs = <<>> THEN <<>> ELSE Tail(msgs)
    IN  [i \in 1..Len(rest) |-> rest[Len(rest) + 1 - i]]

\* truncated.insert(1, msg)
ListInsert0(list, msg) == <<msg>> \o list

ListInsert1(list, msg) ==
    IF list = <<>> THEN <<msg>>
    ELSE <<Head(list)>> \o <<msg>> \o Tail(list)

\* accumulated + msg_tokens <= soft_cap_tokens
FitsAlone(accumulated, msg_tokens, cap) == msg_tokens <= cap

Fits(accumulated, msg_tokens, cap) == accumulated + msg_tokens <= cap

\* The for loop over the messages in the given order; it breaks at the
\* first message that does not fit.
RECURSIVE CapLoopSkips(_, _, _, _)
CapLoopSkips(order, truncated, accumulated, cap) ==
    IF order = <<>>
    THEN [messages |-> truncated, accumulated |-> accumulated]
    ELSE LET msg == Head(order)
             msg_tokens == EstimateTokens(<<msg>>)
         IN  IF Fits(accumulated, msg_tokens, cap)
             THEN CapLoopSkips(Tail(order), ListInsert1(truncated, msg),
                               accumulated + msg_tokens, cap)
             ELSE CapLoopSkips(Tail(order), truncated, accumulated, cap)

RECURSIVE CapLoop(_, _, _, _)
CapLoop(order, truncated, accumulated, cap) ==
    IF order = <<>>
    THEN [messages |-> truncated, accumulated |-> accumulated]
    ELSE LET msg == Head(order)
             msg_tokens == EstimateTokens(<<msg>>)
         IN  IF Fits(accumulated, msg_tokens, cap)
             THEN CapLoop(Tail(order), ListInsert1(truncated, msg),
                          accumulated + msg_tokens, cap)
             ELSE [messages |-> truncated, accumulated |-> accumulated]

\* The function without line 220: cap_info keeps the estimate of the input.
SoftCapStaleInfo(msgs, cap) ==
    LET total_tokens == EstimateTokens(msgs)
    IN  IF total_tokens <= cap
        THEN [messages |-> msgs,
              cap_info |-> [requested |-> cap, actual |-> total_tokens]]
        ELSE LET truncated == SubSeq(msgs, 1, Min(1, Len(msgs)))
                 r == CapLoop(ReversedTail(msgs), truncated,
                              EstimateTokens(truncated), cap)
             IN  [messages |-> r.messages,
                  cap_info |-> [requested |-> cap, actual |-> total_tokens]]

apply_message_token_soft_cap(msgs, cap) ==
    LET total_tokens == EstimateTokens(msgs)
    IN  IF total_tokens <= cap
        THEN [messages |-> msgs,
              cap_info |-> [requested |-> cap, actual |-> total_tokens]]
        ELSE LET truncated == SubSeq(msgs, 1, Min(1, Len(msgs)))
                 r == CapLoop(ReversedTail(msgs), truncated,
                              EstimateTokens(truncated), cap)
             IN  [messages |-> r.messages,
                  cap_info |-> [requested |-> cap, actual |-> r.accumulated]]

CapRequest ==
    /\ cap_pc = "input"
    /\ cap_messages \in MessageLists
    /\ soft_cap_tokens \in 1..MaxCap
    /\ cap_out = NoCapOut

ApplySoftCap ==
    /\ cap_pc = "input"
    /\ cap_out' = apply_message_token_soft_cap(cap_messages, soft_cap_tokens)
    /\ cap_pc' = "done"
    /\ UNCHANGED <<cap_messages, soft_cap_tokens>>
    /\ UNCHANGED nonCapVars

CapNext == ApplySoftCap

CapInit ==
    ToolInit /\ LLMIdle /\ BudgetIdle /\ CapRequest /\ LimitIdle
    /\ PricingIdle /\ CostIdle /\ DispatchIdle

CapSpec == CapInit /\ [][CapNext]_vars


(***************************************************************************)
(* Soft token cap per model and task type: get_dynamic_context_limit       *)
(* (context.py).  A model identifier is a sequence of characters, so that  *)
(* str.startswith is computed and not assumed.                             *)
(***************************************************************************)
EVOLUTION_LIMIT == 4000
DEFAULT_LIMIT == 8000

\* the dict literal, in insertion order (the order limits.items() yields)
limits ==
    << [prefix |-> <<"g","r","o","q","/">>, limit |-> 4000],
       [prefix |-> <<"g","o","o","g","l","e","/">>, limit |-> 4000],
       [prefix |-> <<"s","t","e","p","f","u","n","/">>, limit |-> 8000],
       [prefix |-> <<"a","r","c","e","e","-","a","i","/">>, limit |-> 8000],
       [prefix |-> <<"t","o","g","e","t","h","e","r","/">>, limit |-> 6000],
       [prefix |-> <<"q","w","e","n","/">>, limit |-> 6000] >>

\* str.startswith
StartsWith(s, p) ==
    /\ Len(p) <= Len(s)
    /\ \A i \in 1..Len(p) : s[i] = p[i]

\* the for loop over limits.items() from entry i on, then the fall-through
RECURSIVE LimitScan(_, _, _)
LimitScan(i, m, t) ==
    IF i > Len(limits)
    THEN IF t = "evolution" THEN EVOLUTION_LIMIT ELSE DEFAULT_LIMIT
    ELSE IF StartsWith(m, limits[i].prefix)
         THEN limits[i].limit
         ELSE LimitScan(i + 1, m, t)

get_dynamic_context_limit(m, t) == LimitScan(1, m, t)

\* identifiers tried: every listed provider and one unlisted one, each as
\* the bare prefix, with a model name behind it, and without its slash
Providers ==
    { limits[i].prefix : i \in 1..Len(limits) }
        \cup { <<"o","p","e","n","a","i","/">> }

ModelIds ==
    {<<>>}
        \cup Providers
        \cup { p \o <<"x">> : p \in Providers }
        \cup { SubSeq(p, 1, Len(p) - 1) : p \in Providers }

TaskTypes == {"user", "evolution", "review"}

LimitRequest ==
    /\ lim_pc = "call"
    /\ model_id \in ModelIds
    /\ task_type \in TaskTypes
    /\ lim_out = 0

GetLimit ==
    /\ lim_pc = "call"
    /\ lim_out' = get_dynamic_context_limit(model_id, task_type)
    /\ lim_pc' = "done"
    /\ UNCHANGED <<model_id, task_type>>
    /\ UNCHANGED nonLimitVars

LimitNext == GetLimit

LimitInit ==
    ToolInit /\ LLMIdle /\ BudgetIdle /\ CapIdle /\ LimitRequest
    /\ PricingIdle /\ CostIdle /\ DispatchIdle

LimitSpec == LimitInit /\ [][LimitNext]_vars


(***************************************************************************)
(* Lazy pricing table: _get_pricing (loop.py), called from several         *)
(* threads.  A table is a function from model key to the origin of its     *)
(* entry.  Dicts are objects: _get_pricing returns a reference, so a       *)
(* returned table is an index of dicts and sees later updates in place.    *)
(***************************************************************************)
MaxThreads == 2          \* threads calling _get_pricing
MaxCalls == 2            \* calls each thread makes
MIN_LIVE_ENTRIES == 5    \* len(_live) > 5

StaticKeys == {"s1", "s2"}

MODEL_PRICING_STATIC == [k \in StaticKeys |-> "static"]

\* what fetch_openrouter_pricing can hand back: nothing, a table too small
\* to be trusted, a table that is merged (it overrides s1, lacks s2, adds six)
LiveEmpty == [k \in {} |-> "live"]

LiveSmall == [k \in {"s1", "l1"} |-> "live"]

LiveLarge == [k \in {"s1", "l1", "l2", "l3", "l4", "l5"} |-> "live"]

LiveTables == {LiveEmpty, LiveSmall, LiveLarge}

\* the fetch raises (an exception caught on line 73) or returns a table
FetchOutcomes == {"raise", "empty", "small", "large"}

LiveOf(outcome) ==
    CASE outcome = "small" -> LiveSmall
      [] outcome = "large" -> LiveLarge
      [] OTHER -> LiveEmpty

\* dict.update
MergeLiveReplaces(table, live) == live

MergeLive(table, live) ==
    [k \in DOMAIN table \cup DOMAIN live |->
        IF k \in DOMAIN live THEN live[k] ELSE table[k]]

\* if _live and len(_live) > 5
Trusted(live) ==
    DOMAIN live # {} /\ Cardinality(DOMAIN live) > MIN_LIVE_ENTRIES

\* _cached_pricing or _MODEL_PRICING_STATIC, as a reference
CachedOrStatic ==
    IF cached_pricing = 0 \/ DOMAIN dicts[cached_pricing] = {}
    THEN 1
    ELSE cached_pricing

ThreadIds == 1..MaxThreads

Returns(t, path) ==
    Append(returned_tables,
           [thread |-> t, table |-> IF path \in {"fast", "recheck"}
                                    THEN CachedOrStatic
                                    ELSE cached_pricing,
            path |-> path, refreshing |-> pricing_lock \notin {0, t}])

PricingStart ==
    /\ pricing_fetched = FALSE
    /\ cached_pricing = 0
    /\ dicts = <<MODEL_PRICING_STATIC>>
    /\ pricing_lock = 0
    /\ threads = [t \in ThreadIds |->
                    [pc |-> "idle", calls |-> 0, outcome |-> "none"]]
    /\ fetches = <<>>
    /\ returned_tables = <<>>

\* a thread enters _get_pricing
PricingCall(t) ==
    /\ threads[t].pc = "idle"
    /\ threads[t].calls < MaxCalls
    /\ threads' = [threads EXCEPT ![t].pc = "check",
                                  ![t].calls = @ + 1,
                                  ![t].outcome = "none"]
    /\ UNCHANGED <<pricing_fetched, cached_pricing, dicts, pricing_lock,
                   fetches, returned_tables>>
    /\ UNCHANGED nonPricingVars

\* lines 58-59: the unlocked check; returns on the fast path
PricingFastPath(t) ==
    /\ threads[t].pc = "check"
    /\ IF pricing_fetched
       THEN /\ returned_tables' = Returns(t, "fast")
            /\ threads' = [threads EXCEPT ![t].pc = "idle"]
       ELSE /\ threads' = [threads EXCEPT ![t].pc = "acquire"]
            /\ UNCHANGED returned_tables
    /\ UNCHANGED <<pricing_fetched, cached_pricing, dicts, pricing_lock,
                   fetches>>
    /\ UNCHANGED nonPricingVars

\* The with statement entered without waiting for the lock.
PricingAcquireNoLock(t) ==
    /\ threads[t].pc = "acquire"
    /\ pricing_lock' = t
    /\ threads' = [threads EXCEPT ![t].pc = "recheck"]
    /\ UNCHANGED <<pricing_fetched, cached_pricing, dicts, fetches,
                   returned_tables>>
    /\ UNCHANGED nonPricingVars

\* line 61: with _pricing_lock
PricingAcquire(t) ==
    /\ threads[t].pc = "acquire"
    /\ pricing_lock = 0
    /\ pricing_lock' = t
    /\ threads' = [threads EXCEPT ![t].pc = "recheck"]
    /\ UNCHANGED <<pricing_fetched, cached_pricing, dicts, fetches,
                   returned_tables>>
    /\ UNCHANGED nonPricingVars

\* lines 62-63: the check under the lock
PricingRecheck(t) ==
    /\ threads[t].pc = "recheck"
    /\ IF pricing_fetched
       THEN /\ returned_tables' = Returns(t, "recheck")
            /\ threads' = [threads EXCEPT ![t].pc = "idle"]
            /\ pricing_lock' = 0
       ELSE /\ threads' = [threads EXCEPT ![t].pc = "mark"]
            /\ UNCHANGED <<returned_tables, pricing_lock>>
    /\ UNCHANGED <<pricing_fetched, cached_pricing, dicts, fetches>>
    /\ UNCHANGED nonPricingVars

\* line 65: _pricing_fetched = True
PricingMark(t) ==
    /\ threads[t].pc = "mark"
    /\ pricing_fetched' = TRUE
    /\ threads' = [threads EXCEPT ![t].pc = "copy"]
    /\ UNCHANGED <<cached_pricing, dicts, pricing_lock, fetches,
                   returned_tables>>
    /\ UNCHANGED nonPricingVars

\* line 66: _cached_pricing = dict(_MODEL_PRICING_STATIC)
PricingCopy(t) ==
    /\ threads[t].pc = "copy"
    /\ dicts' = Append(dicts, MODEL_PRICING_STATIC)
    /\ cached_pricing' = Len(dicts) + 1
    /\ threads' = [threads EXCEPT ![t].pc = "fetch"]
    /\ UNCHANGED <<pricing_fetched, pricing_lock, fetches, returned_tables>>
    /\ UNCHANGED nonPricingVars

\* lines 69-70: the import and the call of fetch_openrouter_pricing
PricingFetch(t) ==
    /\ threads[t].pc = "fetch"
    /\ \E outcome \in FetchOutcomes :
        /\ fetches' = Append(fetches, outcome)
        /\ threads' = [threads EXCEPT
                         ![t].pc = IF outcome = "raise" THEN "except"
                                                        ELSE "merge",
                         ![t].outcome = outcome]
    /\ UNCHANGED <<pricing_fetched, cached_pricing, dicts, pricing_lock,
                   returned_tables>>
    /\ UNCHANGED nonPricingVars

\* lines 71-72: _cached_pricing.update(_live) when the table is trusted
PricingMerge(t) ==
    /\ threads[t].pc = "merge"
    /\ LET live == LiveOf(threads[t].outcome) IN
        dicts' = IF Trusted(live)
                 THEN [dicts EXCEPT ![cached_pricing] = MergeLive(@, live)]
                 ELSE dicts
    /\ threads' = [threads EXCEPT ![t].pc = "return"]
    /\ UNCHANGED <<pricing_fetched, cached_pricing, pricing_lock, fetches,
                   returned_tables>>
    /\ UNCHANGED nonPricingVars

\* lines 73-76: the handler logs and clears _pricing_fetched
PricingExcept(t) ==
    /\ threads[t].pc = "except"
    /\ pricing_fetched' = FALSE
    /\ threads' = [threads EXCEPT ![t].pc = "return"]
    /\ UNCHANGED <<cached_pricing, dicts, pricing_lock, fetches,
                   returned_tables>>
    /\ UNCHANGED nonPricingVars

\* line 78: return _cached_pricing, leaving the with block
PricingReturn(t) ==
    /\ threads[t].pc = "return"
    /\ returned_tables' =
         Returns(t, IF threads[t].outcome = "raise" THEN "failed"
                                                    ELSE "fetched")
    /\ pricing_lock' = 0
    /\ threads' = [threads EXCEPT ![t].pc = "idle"]
    /\ UNCHANGED <<pricing_fetched, cached_pricing, dicts, fetches>>
    /\ UNCHANGED nonPricingVars

PricingNext ==
    \E t \in ThreadIds :
        \/ PricingCall(t)
        \/ PricingFastPath(t)
        \/ PricingAcquire(t)
        \/ PricingRecheck(t)
        \/ PricingMark(t)
        \/ PricingCopy(t)
        \/ PricingFetch(t)
        \/ PricingMerge(t)
        \/ PricingExcept(t)
        \/ PricingReturn(t)

PricingInit ==
    ToolInit /\ LLMIdle /\ BudgetIdle /\ CapIdle /\ LimitIdle
    /\ PricingStart /\ CostIdle /\ DispatchIdle

PricingSpec == PricingInit /\ [][PricingNext]_vars


(***************************************************************************)
(* Cost estimate: _estimate_cost (loop.py), which calls _get_pricing and   *)
(* looks the model up in the dict it returns.  Here a dict is the sequence *)
(* of its items in iteration order; keys and the model are sequences of    *)
(* characters.  The call runs on one thread while another thread is in     *)
(* _get_pricing: the dict the fast path hands out is the one the other     *)
(* thread still updates.  Each statement that reads or writes the module   *)
(* state or the dict is a step of its thread.                              *)
(***************************************************************************)
MaxTableLen == 3         \* entries of the static pricing table
MaxModelLen == 3         \* characters of the model argument

PriceTuple(i, c, o) == [kind |-> "tuple", prices |-> <<i, c, o>>]

\* an entry merged from fetch_openrouter_pricing: {'prompt': .., 'completion': ..}
LiveDict == [kind |-> "dict", prices |-> <<>>]

\* the keys a static table is drawn from, each with its 3-tuple
KeyPool ==
    << [key |-> <<"a">>, val |-> PriceTuple(1000, 100, 2000)],
       [key |-> <<"a", "b">>, val |-> PriceTuple(3000, 300, 15000)],
       [key |-> <<"b">>, val |-> PriceTuple(2000, 500, 8000)],
       [key |-> <<"a", "b", "c">>, val |-> PriceTuple(1100, 275, 4400)] >>

\* _MODEL_PRICING_STATIC: a dict over the pool that is not empty, in any
\* iteration order
PricingTables ==
    UNION { { [i \in 1..n |-> KeyPool[g[i]]] :
                g \in { h \in [1..n -> 1..Len(KeyPool)] :
                          \A x, y \in 1..n : x # y => h[x] # h[y] } } :
            n \in 1..MaxTableLen }

\* what fetch_openrouter_pricing hands back, by outcome of FetchOutcomes:
\* a table of six entries, one of them for a key of the pool, a table of
\* two, or none
LiveItems(outcome) ==
    LET large == << [key |-> <<"b">>, val |-> LiveDict],
                    [key |-> <<"c">>, val |-> LiveDict],
                    [key |-> <<"c", "a">>, val |-> LiveDict],
                    [key |-> <<"a", "c">>, val |-> LiveDict],
                    [key |-> <<"b", "c">>, val |-> LiveDict],
                    [key |-> <<"c", "c">>, val |-> LiveDict] >>
    IN  CASE outcome = "large" -> large
          [] outcome = "small" -> SubSeq(large, 1, 2)
          [] OTHER -> <<>>

\* dict.update on item sequences: the value of a key already there is
\* replaced where it is, a new key is added at the end
DictUpdate(table, live) ==
    LET HasKey(t, k) == \E i \in 1..Len(t) : t[i].key = k
        ValueOf(t, k) == t[CHOOSE i \in 1..Len(t) : t[i].key = k].val
        updated == [i \in 1..Len(table) |->
                       IF HasKey(live, table[i].key)
                       THEN [key |-> table[i].key,
                             val |-> ValueOf(live, table[i].key)]
                       ELSE table[i]]
        IsNew(e) == ~HasKey(table, e.key)
    IN  updated \o SelectSeq(live, IsNew)

\* the module state the threads start in: nothing fetched yet, an earlier
\* fetch failed, or an earlier fetch returned (and was merged when it was
\* large)
PricingStates ==
    { [fetched |-> FALSE, cached |-> 0, dicts |-> <<t>>] :
          t \in PricingTables }
    \cup { [fetched |-> f, cached |-> 2, dicts |-> <<t, t>>] :
              t \in PricingTables, f \in BOOLEAN }
    \cup { [fetched |-> TRUE, cached |-> 2,
            dicts |-> <<t, DictUpdate(t, LiveItems("large"))>>] :
              t \in PricingTables }

CostModels == UNION { [1..n -> {"a", "b", "c"}] : n \in 0..MaxModelLen }

TokenCounts ==
    { NoTokens,
      [prompt |-> 1000, cached |-> 200, completion |-> 500],
      [prompt |-> 3, cached |-> 5, completion |-> 1] }

\* not pricing
Truthy(entry) == entry.kind # "None"

\* model_pricing.get(model)
DictGet(table, model) ==
    IF \E i \in 1..Len(table) : table[i].key = model
    THEN table[CHOOSE i \in 1..Len(table) : table[i].key = model].val
    ELSE NoEntry

\* lines 89-92: the body of the for loop for one item
CostLoopBody(loop, item, model) ==
    IF /\ model # <<>>
       /\ StartsWith(model, item.key)
       /\ Len(item.key) > loop.best_length
    THEN [loop EXCEPT !.best_match = item.val,
                      !.best_length = Len(item.key)]
    ELSE loop

\* round(cost, 6) of a cost of n thousandths of a millionth of a dollar,
\* in millionths.  The cost is a binary float: a value half-way between
\* two millionths is stored slightly above or below the half, so round()
\* can go either way there.
Round6(n) ==
    LET q == n \div 1000
        r == n % 1000
    IN  IF r < 500 THEN {q}
        ELSE IF r > 500 THEN {q + 1}
        ELSE {q, q + 1}

\* line 97: regular_input = max(0, prompt_tokens - cached_tokens)
RegularInput(tokens) ==
    IF tokens.prompt - tokens.cached > 0
    THEN tokens.prompt - tokens.cached ELSE 0

\* lines 96-103: the values round(cost, 6) can return
CostOf(prices, tokens) ==
    Round6(RegularInput(tokens) * prices[1]
             + tokens.cached * prices[2]
             + tokens.completion * prices[3])

\* lines 94-103: what the call returns for the entry it selected
EstimateFrom(pricing, tokens) ==
    IF ~Truthy(pricing)
    THEN {[pricing |-> pricing, cost |-> 0, raised |-> "None"]}
    ELSE IF pricing.kind = "dict"
    THEN \* line 96: unpacking a 2-key dict into three names
         {[pricing |-> pricing, cost |-> 0, raised |-> "ValueError"]}
    ELSE {[pricing |-> pricing, cost |-> c, raised |-> "None"] :
            c \in CostOf(pricing.prices, tokens)}

\* the thread that runs _estimate_cost, and the threads in _get_pricing
Estimator == 1

CostThreads == 1..2

CostRequest ==
    /\ cost_pc = "call"
    /\ cost_table = 0
    /\ cost_loop = NoLoop
    /\ cost_model \in CostModels
    /\ cost_tokens \in TokenCounts
    /\ cost_out = NoCostOut

\* the pricing module as the two threads find it
CostPricing ==
    /\ \E st \in PricingStates :
          /\ pricing_fetched = st.fetched
          /\ cached_pricing = st.cached
          /\ dicts = st.dicts
    /\ pricing_lock = 0
    /\ threads = [t \in CostThreads |->
                    [pc |-> "idle", calls |-> 0, outcome |-> "none"]]
    /\ fetches = <<>>
    /\ returned_tables = <<>>

\* line 83 on the estimating thread, or any call of _get_pricing on the
\* other: the thread enters _get_pricing, once
CostCall(t) ==
    /\ threads[t].pc = "idle"
    /\ threads[t].calls = 0
    /\ threads' = [threads EXCEPT ![t].pc = "check", ![t].calls = 1]
    /\ UNCHANGED <<pricing_fetched, cached_pricing, dicts, pricing_lock,
                   fetches, returned_tables>>
    /\ UNCHANGED nonPricingVars

\* line 66: _cached_pricing = dict(_MODEL_PRICING_STATIC), dicts[1] being
\* the static table
CostCopy(t) ==
    /\ threads[t].pc = "copy"
    /\ dicts' = Append(dicts, dicts[1])
    /\ cached_pricing' = Len(dicts) + 1
    /\ threads' = [threads EXCEPT ![t].pc = "fetch"]
    /\ UNCHANGED <<pricing_fetched, pricing_lock, fetches, returned_tables>>
    /\ UNCHANGED nonPricingVars

\* lines 71-72: _cached_pricing.update(_live), in place, when the table is
\* trusted
CostMerge(t) ==
    /\ threads[t].pc = "merge"
    /\ LET live == LiveItems(threads[t].outcome) IN
        dicts' = IF Trusted(live)
                 THEN [dicts EXCEPT ![cached_pricing] = DictUpdate(@, live)]
                 ELSE dicts
    /\ threads' = [threads EXCEPT ![t].pc = "return"]
    /\ UNCHANGED <<pricing_fetched, cached_pricing, pricing_lock, fetches,
                   returned_tables>>
    /\ UNCHANGED nonPricingVars

\* the dict _get_pricing returned to thread t
ReturnedTo(t) ==
    LET k == CHOOSE j \in 1..Len(returned_tables) :
                 returned_tables[j].thread = t
    IN  returned_tables[k].table

\* lines 83-87 and 94-103: _get_pricing has returned model_pricing, and
\* model_pricing.get(model) is taken when it is truthy
CostGet ==
    /\ cost_pc = "call"
    /\ threads[Estimator].pc = "idle"
    /\ threads[Estimator].calls = 1
    /\ LET table == dicts[ReturnedTo(Estimator)]
           pricing == DictGet(table, cost_model)
       IN  /\ cost_table' = ReturnedTo(Estimator)
           /\ cost_loop' = [NoLoop EXCEPT !.seen = table]
           /\ IF Truthy(pricing)
              THEN /\ cost_out' \in EstimateFrom(pricing, cost_tokens)
                   /\ cost_pc' = "done"
              ELSE /\ cost_pc' = "for"
                   /\ UNCHANGED cost_out
    /\ UNCHANGED <<cost_model, cost_tokens>>
    /\ UNCHANGED <<toolVars, llmVars, budgetVars, capVars, limitVars,
                   pricingVars, execVars, poolVars, selfVars, usageVars>>

\* line 88: model_pricing.items() and its iterator, which notes the size
\* of the dict
CostIter ==
    /\ cost_pc = "for"
    /\ cost_loop' = [cost_loop EXCEPT !.seen = dicts[cost_table],
                                      !.used = Len(dicts[cost_table])]
    /\ cost_pc' = "loop"
    /\ UNCHANGED <<cost_table, cost_model, cost_tokens, cost_out>>
    /\ UNCHANGED <<toolVars, llmVars, budgetVars, capVars, limitVars,
                   pricingVars, execVars, poolVars, selfVars, usageVars>>

\* lines 88-103: the iterator is asked for the next item.  It raises
\* RuntimeError (dictionary changed size during iteration) when the dict
\* no longer has the size noted, and the exception leaves _estimate_cost;
\* it ends the loop after the last item, and the call returns the
\* estimate for best_match; otherwise the body runs for the item.
CostLoopStep ==
    /\ cost_pc = "loop"
    /\ LET table == dicts[cost_table]
           seen == [cost_loop EXCEPT !.seen = table]
       IN  IF Len(table) # cost_loop.used
           THEN /\ cost_out' = [pricing |-> NoEntry, cost |-> 0,
                                raised |-> "RuntimeError"]
                /\ cost_loop' = seen
                /\ cost_pc' = "done"
           ELSE IF cost_loop.pos = Len(table)
           THEN /\ cost_out' \in EstimateFrom(cost_loop.best_match,
                                              cost_tokens)
                /\ cost_loop' = seen
                /\ cost_pc' = "done"
           ELSE /\ cost_loop' =
                     [CostLoopBody(seen, table[cost_loop.pos + 1],
                                   cost_model)
                         EXCEPT !.pos = cost_loop.pos + 1]
                /\ UNCHANGED <<cost_out, cost_pc>>
    /\ UNCHANGED <<cost_table, cost_model, cost_tokens>>
    /\ UNCHANGED <<toolVars, llmVars, budgetVars, capVars, limitVars,
                   pricingVars, execVars, poolVars, selfVars, usageVars>>

CostNext ==
    \/ CostGet
    \/ CostIter
    \/ CostLoopStep
    \/ \E t \in CostThreads :
          \/ CostCall(t)
          \/ PricingFastPath(t)
          \/ PricingAcquire(t)
          \/ PricingRecheck(t)
          \/ PricingMark(t)
          \/ CostCopy(t)
          \/ PricingFetch(t)
          \/ CostMerge(t)
          \/ PricingExcept(t)
          \/ PricingReturn(t)

CostInit ==
    ToolInit /\ LLMIdle /\ BudgetIdle /\ CapIdle /\ LimitIdle
    /\ CostPricing /\ CostRequest /\ DispatchIdle

CostSpec == CostInit /\ [][CostNext]_vars


(***************************************************************************)
(* One tool call from arguments to logs: _execute_single_tool,             *)
(* _make_timeout_result and _execute_with_timeout (loop.py), for a batch   *)
(* dispatched one call after another.  _execute_single_tool runs on the    *)
(* worker thread of the call's executor; _execute_with_timeout and         *)
(* _make_timeout_result run on the thread that dispatches, which waits     *)
(* for the worker no longer than the timeout.  Every append to a log is a  *)
(* step of its thread.  A text is the sequence of its parts.               *)
(***************************************************************************)
MaxExecBatch == 2

\* the warning sign every failure text starts with
WARNING_MARKER == "warning-sign"

\* tc["function"]["arguments"]:
\*   "object"     a JSON object, as text or as bytes
\*   "empty"      a value that is false: "", None, {}, [], 0, 0.0, False, b""
\*   "non_object" JSON of a list, number, string or null, as text or bytes
\*   "bad_json"   text or bytes that are not JSON
\*   "not_string" a true value that is neither text nor bytes: a dict, a
\*                list, a number, True
\*   "too_deep"   text nested deeper than the interpreter's recursion limit
ArgumentKinds ==
    {"object", "empty", "non_object", "bad_json", "not_string", "too_deep"}

\* what tools.execute does: returns a text, returns a text that starts
\* with the marker, returns a text with the marker further in, raises
HandlerKinds == {"ok", "warning", "marker_inside", "raises"}

\* what _emit_usage does with the event of the call: puts it on
\* ctx.event_queue; returns at once, ctx.event_queue being None; fails
\* inside its try block (queue.Full from put_nowait, a usage that is not a
\* dict), the exception being swallowed
SinkKinds == {"queue", "no_queue", "put_fails"}

\* what the handler itself appends to events.jsonl while it runs:
\*   "tool_warning"  _run_shell, given cmd as a string (shell.py:53); a
\*                   failed append is swallowed and leaves "none"
\*   "llm_code_edit" _llm_code_edit, having written the target file
\*                   (shell.py:227), after which it only returns
HandlerLogs == {"none", "tool_warning", "llm_code_edit"}

\* the two tools of shell.py, and a vision tool, which reports the usage
\* of its model call through _emit_usage
ExecToolNames == {"run_shell", "llm_code_edit", "vlm_query"}

\* json.loads(arguments or "{}"): a false value is replaced by "{}"
JsonLoads(arguments) ==
    CASE arguments = "object" -> [raised |-> "None", value |-> "dict"]
      [] arguments = "empty" -> [raised |-> "None", value |-> "empty_dict"]
      [] arguments = "non_object" -> [raised |-> "None", value |-> "not_dict"]
      [] arguments = "bad_json" ->
            [raised |-> "JSONDecodeError", value |-> "none"]
      [] arguments = "too_deep" ->
            [raised |-> "RecursionError", value |-> "none"]
      [] OTHER -> [raised |-> "TypeError", value |-> "none"]

\* except (json.JSONDecodeError, ValueError)
ArgErrorCaught(exc) == exc \in {"JSONDecodeError", "ValueError"}

\* the calls of a batch; a field that plays no part in a call (the handler
\* of a call whose arguments do not parse, the sink of a call that emits
\* no usage) has one value
ExecCalls ==
    {c \in [name : ExecToolNames, arguments : ArgumentKinds,
            handler : HandlerKinds, logs : HandlerLogs, sink : SinkKinds] :
        /\ JsonLoads(c.arguments).raised # "None" =>
              (c.handler = "ok" /\ c.logs = "none")
        /\ c.logs = "tool_warning" => c.name = "run_shell"
        /\ c.logs = "llm_code_edit" =>
              (c.name = "llm_code_edit"
                 /\ c.handler \in {"ok", "marker_inside"})
        /\ (\/ c.name # "vlm_query"
            \/ c.handler = "raises"
            \/ JsonLoads(c.arguments).raised # "None") => c.sink = "queue"}

ExecBatches == UNION { [1..n -> ExecCalls] : n \in 1..MaxExecBatch }

\* sanitize_tool_args_for_log(fn_name, args if isinstance(args, dict) else {})
ArgsForLog(value) ==
    IF value = "dict" THEN "sanitize(args)" ELSE "sanitize({})"

HandlerText(handler) ==
    CASE handler = "ok" -> <<"text">>
      [] handler = "warning" -> <<WARNING_MARKER, "text">>
      [] handler = "marker_inside" -> <<"text", WARNING_MARKER>>
      [] OTHER -> <<WARNING_MARKER, "TOOL_ERROR">>

\* is_error = (not tool_ok) or str(result).startswith(marker)
IsErrorNotOkOnly(tool_ok, text) == ~tool_ok

IsError(tool_ok, text) == ~tool_ok \/ StartsWith(text, <<WARNING_MARKER>>)

\* lines 153-156: the tool_error record
NoToolErrorEvent(i) == <<>>

ToolErrorEvent(i) ==
    <<[call |-> i, type |-> "tool_error", thread |-> "worker"]>>

\* the record the handler appends to events.jsonl from the worker thread
HandlerEvents(i, c) ==
    IF c.logs = "none" THEN <<>>
    ELSE <<[call |-> i, type |-> c.logs, thread |-> "worker"]>>

\* _emit_usage, called by the vision tool once its model call returned
EmitUsage(i, c) ==
    IF c.name = "vlm_query" /\ c.handler # "raises" /\ c.sink = "queue"
    THEN <<[call |-> i, type |-> "llm_usage", thread |-> "worker"]>>
    ELSE <<>>

ExecResult(i, c, kind, text, is_error, args_for_log) ==
    [tool_call_id |-> i, fn_name |-> c.name, kind |-> kind, result |-> text,
     is_error |-> is_error, args_for_log |-> args_for_log]

NoExecResult == ExecResult(0, [name |-> "None"], "None", <<>>, FALSE, "None")

\* lines 132-143: the arguments are parsed; an error that is caught gives
\* the TOOL_ARG_ERROR result, any other leaves _execute_single_tool
ParseArguments(i, c) ==
    LET args == JsonLoads(c.arguments) IN
    IF args.raised = "None"
    THEN [raised |-> "None", returned |-> FALSE, result |-> NoExecResult]
    ELSE IF ArgErrorCaught(args.raised)
    THEN [raised |-> "None", returned |-> TRUE,
          result |-> ExecResult(i, c, "arg_error",
                                <<WARNING_MARKER, "TOOL_ARG_ERROR">>, TRUE,
                                "{}")]
    ELSE [raised |-> args.raised, returned |-> FALSE,
          result |-> NoExecResult]

\* lines 145-173: tools.execute and what follows it
RunHandler(i, c) ==
    LET args_for_log == ArgsForLog(JsonLoads(c.arguments).value)
        tool_ok == c.handler # "raises"
        text == HandlerText(c.handler)
    IN  [result |-> ExecResult(i, c,
                               IF tool_ok THEN "result" ELSE "tool_error",
                               text, IsError(tool_ok, text), args_for_log),
         handler_events |-> HandlerEvents(i, c),
         events |-> IF tool_ok THEN <<>> ELSE ToolErrorEvent(i),
         tools |-> <<[call |-> i, args |-> args_for_log,
                      result_preview |-> text, thread |-> "worker"]>>,
         usage |-> EmitUsage(i, c)]

\* _make_timeout_result, called on the dispatching thread; any exception
\* of the parse is swallowed and leaves args_for_log the literal {}
TimeoutResult(i, c, thread) ==
    LET args == JsonLoads(c.arguments)
        args_for_log == IF args.raised = "None" THEN ArgsForLog(args.value)
                        ELSE "{}"
        text == <<WARNING_MARKER, "TOOL_TIMEOUT">>
    IN  [result |-> ExecResult(i, c, "timeout", text, TRUE, args_for_log),
         events |-> <<[call |-> i, type |-> "tool_timeout",
                       thread |-> thread]>>,
         tools |-> <<[call |-> i, args |-> args_for_log,
                      result_preview |-> text, thread |-> thread]>>]

\* what the worker of a call that is about to return hands back
WorkerResult(i, pc) ==
    IF pc = "return_arg_error"
    THEN ParseArguments(i, ex_calls[i]).result
    ELSE RunHandler(i, ex_calls[i]).result

ExecRequest ==
    /\ ex_pc = "call"
    /\ ex_calls \in ExecBatches
    /\ ex_idx = 1
    /\ ex_results = <<>>
    /\ ex_raised = "None"
    /\ ex_workers = {}
    /\ tools_log = <<>>
    /\ events_log = <<>>
    /\ event_queue = <<>>

\* the list comprehension of line 300 moves on to the next call
ExecAdvance ==
    /\ ex_idx' = ex_idx + 1
    /\ ex_pc' = IF ex_idx = Len(ex_calls) THEN "done" ELSE "call"

\* the worker of call i is at pc
WorkerAt(i, pc) == [call |-> i, pc |-> pc] \in ex_workers

WorkerMoves(i, from, to) ==
    ex_workers' = (ex_workers \ {[call |-> i, pc |-> from]})
                      \cup {[call |-> i, pc |-> to]}

\* the dispatcher waits for the worker of call i
ExecAwaited(i) == ex_pc = "wait" /\ ex_idx = i

\* lines 267-271: _execute_with_timeout makes the executor of the call,
\* submits _execute_single_tool and waits in future.result(timeout)
ExecSubmit ==
    /\ ex_pc = "call"
    /\ ex_workers' = ex_workers \cup {[call |-> ex_idx, pc |-> "queued"]}
    /\ ex_pc' = "wait"
    /\ UNCHANGED <<ex_calls, ex_idx, ex_results, ex_raised, tools_log,
                   events_log, event_queue>>
    /\ UNCHANGED nonExecVars

\* the worker thread takes the work item and enters _execute_single_tool
ExecStart(i) ==
    /\ WorkerAt(i, "queued")
    /\ WorkerMoves(i, "queued", "parse")
    /\ UNCHANGED <<ex_pc, ex_calls, ex_idx, ex_results, ex_raised,
                   tools_log, events_log, event_queue>>
    /\ UNCHANGED nonExecVars

\* _execute_single_tool up to the call of tools.execute
ExecParse(i) ==
    /\ WorkerAt(i, "parse")
    /\ LET p == ParseArguments(i, ex_calls[i]) IN
        WorkerMoves(i, "parse",
                    IF p.raised # "None" THEN "raise"
                    ELSE IF p.returned THEN "return_arg_error"
                    ELSE "execute")
    /\ UNCHANGED <<ex_pc, ex_calls, ex_idx, ex_results, ex_raised,
                   tools_log, events_log, event_queue>>
    /\ UNCHANGED nonExecVars

\* line 149, inside tools.execute: the handler appends its own record to
\* events.jsonl and runs on
ExecHandlerLog(i) ==
    /\ WorkerAt(i, "execute")
    /\ ex_calls[i].logs # "none"
    /\ events_log' = events_log \o RunHandler(i, ex_calls[i]).handler_events
    /\ WorkerMoves(i, "execute", "logged")
    /\ UNCHANGED <<ex_pc, ex_calls, ex_idx, ex_results, ex_raised,
                   tools_log, event_queue>>
    /\ UNCHANGED nonExecVars

\* the position of a worker whose handler is about to end
HandlerEnding(i) ==
    IF ex_calls[i].logs = "none" THEN "execute" ELSE "logged"

\* lines 148-152: tools.execute ends; a vision tool has emitted its usage
ExecHandler(i) ==
    /\ i \in 1..Len(ex_calls)
    /\ WorkerAt(i, HandlerEnding(i))
    /\ LET r == RunHandler(i, ex_calls[i]) IN
        /\ event_queue' = event_queue \o r.usage
        /\ WorkerMoves(i, HandlerEnding(i),
                       IF ex_calls[i].handler = "raises" THEN "error_event"
                       ELSE "record")
    /\ UNCHANGED <<ex_pc, ex_calls, ex_idx, ex_results, ex_raised,
                   tools_log, events_log>>
    /\ UNCHANGED nonExecVars

\* lines 153-156: the worker appends the tool_error record
ExecErrorEvent(i) ==
    /\ WorkerAt(i, "error_event")
    /\ events_log' = events_log \o RunHandler(i, ex_calls[i]).events
    /\ WorkerMoves(i, "error_event", "record")
    /\ UNCHANGED <<ex_pc, ex_calls, ex_idx, ex_results, ex_raised,
                   tools_log, event_queue>>
    /\ UNCHANGED nonExecVars

\* lines 158-162: the worker appends the tools.jsonl record
ExecRecord(i) ==
    /\ WorkerAt(i, "record")
    /\ tools_log' = tools_log \o RunHandler(i, ex_calls[i]).tools
    /\ WorkerMoves(i, "record", "return")
    /\ UNCHANGED <<ex_pc, ex_calls, ex_idx, ex_results, ex_raised,
                   events_log, event_queue>>
    /\ UNCHANGED nonExecVars

\* _execute_single_tool returns within the timeout: future.result gives
\* its dictionary to the dispatcher
ExecReturn ==
    /\ ex_pc = "wait"
    /\ \E pc \in {"return", "return_arg_error"} :
        /\ WorkerAt(ex_idx, pc)
        /\ ex_workers' = ex_workers \ {[call |-> ex_idx, pc |-> pc]}
        /\ ex_results' = Append(ex_results, WorkerResult(ex_idx, pc))
    /\ ExecAdvance
    /\ UNCHANGED <<ex_calls, ex_raised, tools_log, events_log, event_queue>>
    /\ UNCHANGED nonExecVars

\* the exception leaves _execute_single_tool within the timeout:
\* future.result re-raises it and nothing on the way catches it
ExecRaise ==
    /\ ex_pc = "wait"
    /\ WorkerAt(ex_idx, "raise")
    /\ ex_workers' = ex_workers \ {[call |-> ex_idx, pc |-> "raise"]}
    /\ ex_pc' = "raised"
    /\ ex_raised' = ParseArguments(ex_idx, ex_calls[ex_idx]).raised
    /\ UNCHANGED <<ex_calls, ex_idx, ex_results, tools_log, events_log,
                   event_queue>>
    /\ UNCHANGED nonExecVars

\* future.result(timeout) raises TimeoutError, the worker being anywhere
\* in _execute_single_tool or not started: _make_timeout_result appends
\* the tool_timeout record
ExecTimeout ==
    /\ ex_pc = "wait"
    /\ LET r == TimeoutResult(ex_idx, ex_calls[ex_idx], "orchestrator") IN
        events_log' = events_log \o r.events
    /\ ex_pc' = "timeout"
    /\ UNCHANGED <<ex_calls, ex_idx, ex_results, ex_raised, ex_workers,
                   tools_log, event_queue>>
    /\ UNCHANGED nonExecVars

\* _make_timeout_result appends the tools.jsonl record and returns the
\* substitute; executor.shutdown(wait=False, cancel_futures=True) cancels
\* the work item when no worker has taken it and lets a worker run on
ExecTimeoutReturn ==
    /\ ex_pc = "timeout"
    /\ LET r == TimeoutResult(ex_idx, ex_calls[ex_idx], "orchestrator") IN
        /\ tools_log' = tools_log \o r.tools
        /\ ex_results' = Append(ex_results, r.result)
    /\ ex_workers' = ex_workers \ {[call |-> ex_idx, pc |-> "queued"]}
    /\ ExecAdvance
    /\ UNCHANGED <<ex_calls, ex_raised, events_log, event_queue>>
    /\ UNCHANGED nonExecVars

\* a worker whose call timed out leaves _execute_single_tool: what it
\* returns or raises is kept by a future nobody reads
ExecBackground(i) ==
    /\ ~ExecAwaited(i)
    /\ \E pc \in {"return", "return_arg_error", "raise"} :
        /\ WorkerAt(i, pc)
        /\ ex_workers' = ex_workers \ {[call |-> i, pc |-> pc]}
    /\ UNCHANGED <<ex_pc, ex_calls, ex_idx, ex_results, ex_raised,
                   tools_log, events_log, event_queue>>
    /\ UNCHANGED nonExecVars

ExecNext ==
    \/ ExecSubmit
    \/ ExecReturn
    \/ ExecRaise
    \/ ExecTimeout
    \/ ExecTimeoutReturn
    \/ \E i \in 1..MaxExecBatch :
          \/ ExecStart(i)
          \/ ExecParse(i)
          \/ ExecHandlerLog(i)
          \/ ExecHandler(i)
          \/ ExecErrorEvent(i)
          \/ ExecRecord(i)
          \/ ExecBackground(i)

ExecInit ==
    ToolInit /\ LLMIdle /\ BudgetIdle /\ CapIdle /\ LimitIdle
    /\ PricingIdle /\ CostIdle /\ ExecRequest /\ PoolIdle /\ AdvisoryIdle

ExecSpec == ExecInit /\ [][ExecNext]_vars


(***************************************************************************)
(* The worker pool of a parallel batch: _handle_tool_calls, lines 306-323. *)
(* A pool worker runs _execute_with_timeout for one call; the call ends    *)
(* with a result (the handler's or the timeout substitute) or with the     *)
(* exception that left _execute_single_tool.                               *)
(***************************************************************************)
MaxPoolBatch == 9

\* batches that take the parallel path: read-only calls, more than one
PoolBatches ==
    { [i \in 1..n |-> "repo_read"] : n \in 2..MaxPoolBatch }

InFlight == {i \in 1..Len(pool_futures) : pool_futures[i] = "running"}

Queued == {i \in 1..Len(pool_futures) : pool_futures[i] = "pending"}

\* the workers that hold a work item: taken from the queue or running
Busy == {i \in 1..Len(pool_futures) : pool_futures[i] \in {"taken", "running"}}

\* executor.shutdown(wait=False, cancel_futures=True), one statement at a
\* time: get_nowait takes the oldest work item from the queue, then
\* future.cancel() cancels it
CancelFutures(fs) ==
    IF \E i \in 1..Len(fs) : fs[i] = "drained"
    THEN [i \in 1..Len(fs) |-> IF fs[i] = "drained" THEN "cancelled" ELSE fs[i]]
    ELSE [i \in 1..Len(fs) |->
             IF fs[i] = "pending" /\ \A j \in 1..(i - 1) : fs[j] # "pending"
             THEN "drained" ELSE fs[i]]

PoolRequest ==
    /\ pool_pc = "submit"
    /\ pool_calls \in PoolBatches
    /\ pool_futures = <<>>
    /\ pool_results = <<>>

\* lines 310-317: executor.submit queues the next call
PoolSubmit ==
    /\ pool_pc = "submit"
    /\ Len(pool_futures) < Len(pool_calls)
    /\ pool_futures' = Append(pool_futures, "pending")
    /\ UNCHANGED <<pool_pc, pool_calls, pool_results>>
    /\ UNCHANGED nonPoolVars

\* line 318: results = [None] * len(tool_calls)
PoolSubmitted ==
    /\ pool_pc = "submit"
    /\ Len(pool_futures) = Len(pool_calls)
    /\ pool_results' = [i \in 1..Len(pool_calls) |-> 0]
    /\ pool_pc' = "collect"
    /\ UNCHANGED <<pool_calls, pool_futures>>
    /\ UNCHANGED nonPoolVars

\* a worker takes the oldest work item from the queue; the executor has
\* max_workers threads at most
PoolTakes(i) ==
    /\ i \in Queued
    /\ \A j \in Queued : i <= j
    /\ Cardinality(Busy) < max_workers(pool_calls)
    /\ pool_futures' = [pool_futures EXCEPT ![i] = "taken"]
    /\ UNCHANGED <<pool_pc, pool_calls, pool_results>>
    /\ UNCHANGED nonPoolVars

\* the worker runs the work item: _execute_with_timeout is entered
PoolStart(i) ==
    /\ i \in 1..Len(pool_futures)
    /\ pool_futures[i] = "taken"
    /\ pool_futures' = [pool_futures EXCEPT ![i] = "running"]
    /\ UNCHANGED <<pool_pc, pool_calls, pool_results>>
    /\ UNCHANGED nonPoolVars

\* _execute_with_timeout ends and its worker is free again
PoolFinish(i) ==
    /\ i \in InFlight
    /\ pool_futures' = [pool_futures EXCEPT ![i] = "done"]
    /\ UNCHANGED <<pool_pc, pool_calls, pool_results>>
    /\ UNCHANGED nonPoolVars

\* lines 319-323: as_completed yields a finished future; future.result()
\* returns its result, which is stored, or re-raises its exception, and
\* the finally clause is entered
PoolCollect(i) ==
    /\ pool_pc = "collect"
    /\ i \in 1..Len(pool_futures)
    /\ pool_futures[i] = "done"
    /\ pool_results[i] = 0
    /\ \E outcome \in {"result", "TypeError"} :
        IF outcome = "result"
        THEN /\ pool_results' = [pool_results EXCEPT ![i] = i]
             /\ UNCHANGED pool_pc
        ELSE /\ pool_pc' = "draining"
             /\ UNCHANGED pool_results
    /\ UNCHANGED <<pool_calls, pool_futures>>
    /\ UNCHANGED nonPoolVars

\* line 323 after an exception: the shutdown takes and cancels the queued
\* work items while the workers take work from the same queue; with the
\* queue empty the exception leaves _handle_tool_calls
PoolDrain ==
    /\ pool_pc = "draining"
    /\ pool_futures' = CancelFutures(pool_futures)
    /\ pool_pc' = IF pool_futures' = pool_futures THEN "raised" ELSE "draining"
    /\ UNCHANGED <<pool_calls, pool_results>>
    /\ UNCHANGED nonPoolVars

\* the loop is over: shutdown with an empty queue, then
\* _process_tool_results
PoolReturn ==
    /\ pool_pc = "collect"
    /\ \A i \in 1..Len(pool_results) : pool_results[i] # 0
    /\ pool_pc' = "done"
    /\ UNCHANGED <<pool_calls, pool_futures, pool_results>>
    /\ UNCHANGED nonPoolVars

PoolNext ==
    \/ PoolSubmit
    \/ PoolSubmitted
    \/ \E i \in 1..MaxPoolBatch :
          \/ PoolTakes(i)
          \/ PoolStart(i)
          \/ PoolFinish(i)
          \/ PoolCollect(i)
    \/ PoolDrain
    \/ PoolReturn

PoolInit ==
    ToolInit /\ LLMIdle /\ BudgetIdle /\ CapIdle /\ LimitIdle
    /\ PricingIdle /\ CostIdle /\ ExecIdle /\ PoolRequest /\ AdvisoryIdle

PoolSpec == PoolInit /\ [][PoolNext]_vars


(***************************************************************************)
(* _maybe_inject_self_check.                                               *)
(***************************************************************************)
REMINDER_INTERVAL == 50
MaxSelfMsgs == 2
SelfCheckRounds == {0, 1, 2, 49, 50, 51, 100}

\* what m.get("content", []) finds in a message:
\*   "text"    a string
\*   "blocks"  a list of blocks
\*   "missing" no content key, the default [] is used
\*   "none"    content is None, as in an assistant message that only
\*             carries tool calls
\*   "number"  content is a number
ContentKinds == {"text", "blocks", "missing", "none", "number"}

\* iterating the content on line 392 raises TypeError
NotIterable(kind) == kind \in {"none", "number"}

SelfMessages ==
    [role : {"system", "user", "assistant", "tool"},
     kind : ContentKinds]

SelfMessageLists == UNION {[1..n -> SelfMessages] : n \in 0..MaxSelfMsgs}

\* not (round_idx <= 1 or round_idx % REMINDER_INTERVAL != 0)
SelfCheckDueNoSkip(idx) == idx % REMINDER_INTERVAL = 0

SelfCheckDue(idx) == ~(idx <= 1 \/ idx % REMINDER_INTERVAL # 0)

\* The reminder: checkpoint_num = round_idx // REMINDER_INTERVAL.
Reminder(idx) ==
    [role |-> "system", kind |-> "CHECKPOINT",
     checkpoint_num |-> idx \div REMINDER_INTERVAL, round |-> idx]

SelfCheckRequest ==
    /\ sc_pc = "check"
    /\ sc_round_idx \in SelfCheckRounds
    /\ sc_messages \in SelfMessageLists
    /\ sc_usage \in 0..1
    /\ sc_progress = <<>>

\* lines 389-394: the token sum over the messages raises TypeError at the
\* first message whose content is neither a string nor iterable
TokenSumRaises(msgs) ==
    \E k \in 1..Len(msgs) : NotIterable(msgs[k].kind)

\* The whole function: return on a round that is not due; on a due round
\* compute the token sum, which may raise and end the function before
\* anything is appended, then append the reminder and report progress.
MaybeInjectSelfCheck ==
    /\ sc_pc = "check"
    /\ IF ~SelfCheckDue(sc_round_idx)
       THEN /\ sc_pc' = "returned"
            /\ UNCHANGED <<sc_messages, sc_progress>>
       ELSE IF TokenSumRaises(sc_messages)
       THEN /\ sc_pc' = "raised"
            /\ UNCHANGED <<sc_messages, sc_progress>>
       ELSE /\ sc_pc' = "returned"
            /\ sc_messages' = Append(sc_messages, Reminder(sc_round_idx))
            /\ sc_progress' = Append(sc_progress,
                                     sc_round_idx \div REMINDER_INTERVAL)
    /\ UNCHANGED <<sc_round_idx, sc_usage>>
    /\ UNCHANGED nonSelfVars

SelfCheckNext == MaybeInjectSelfCheck

SelfCheckInit ==
    ToolInit /\ LLMIdle /\ BudgetIdle /\ CapIdle /\ LimitIdle
    /\ PricingIdle /\ CostIdle /\ ExecIdle /\ PoolIdle
    /\ SelfCheckRequest /\ UsageIdle

SelfCheckSpec == SelfCheckInit /\ [][SelfCheckNext]_vars


(***************************************************************************)
(* The emitters of llm_usage events that reach their sink: the vision       *)
(* tool's _emit_usage and the background consciousness.  run_model raises  *)
(* before its append (RunModelFails) and emits nothing.                    *)
(***************************************************************************)
MaxUsageEvents == 3

\* The model identifier an emitter is given: None, empty, or a name.
ModelArgs == {"None", "", "m1"}

\* "model": model or "unspecified"
ModelOrSentinel(model) ==
    IF model \in {"None", ""} THEN "unspecified" ELSE model

\* vision._emit_usage: nothing when ctx.event_queue is None or when the
\* try block fails (a full queue, a usage that is not a dict).
VisionEmitUsage ==
    /\ Len(usage_events) < MaxUsageEvents
    /\ \E model \in ModelArgs, sink \in SinkKinds :
         usage_events' =
            IF sink = "queue"
            THEN Append(usage_events,
                        [source |-> "vision", model |-> ModelOrSentinel(model)])
            ELSE usage_events
    /\ UNCHANGED nonUsageVars

\* consciousness: "model": self.model; nothing when self._event_queue is
\* None.
ConsciousnessUsage ==
    /\ Len(usage_events) < MaxUsageEvents
    /\ \E model \in ModelArgs, has_queue \in BOOLEAN :
         usage_events' =
            IF has_queue
            THEN Append(usage_events,
                        [source |-> "consciousness", model |-> model])
            ELSE usage_events
    /\ UNCHANGED nonUsageVars

UsageNext == VisionEmitUsage \/ ConsciousnessUsage

UsageInit ==
    ToolInit /\ LLMIdle /\ BudgetIdle /\ CapIdle /\ LimitIdle
    /\ PricingIdle /\ CostIdle /\ DispatchIdle

UsageSpec == UsageInit /\ [][UsageNext]_vars


(***************************************************************************)
(* Properties of tool dispatch.                                            *)
(***************************************************************************)
StatefulHandlers == {h \in handlers : h.name \in STATEFUL_BROWSER_TOOLS}

AllReadOnly(calls) ==
    \A i \in 1..Len(calls) : calls[i].name \in READ_ONLY_PARALLEL_TOOLS

\* C1: position i of the results list holds the result of the i-th call of
\* the batch (same tool_call_id), whatever order the calls completed in, and
\* the tool-response messages follow the order of the calls.
C1_ResultsInCallOrder ==
    /\ \A i \in 1..Len(results) :
         results[i] # NoResult =>
            results[i].tool_call_id = tool_calls[i].id
    /\ \A i, j \in 1..Len(messages) :
         i < j => messages[i].tool_call_id < messages[j].tool_call_id

\* A parallel batch whose calls completed out of call order, one of them by
\* timing out, has all its results stored.
C1_Witness ==
    /\ mode = "done"
    /\ futures # <<>>
    /\ Len(completion) = Len(tool_calls)
    /\ \E k \in 1..(Len(completion) - 1) : completion[k] > completion[k + 1]
    /\ \E i \in 1..Len(results) : results[i].kind = "timeout"
    /\ \E i \in 1..Len(results) : results[i].kind = "result"

\* C2 as stated: at most one stateful tool operation is executing at any
\* time, also after a stateful call timed out and the lane was reset.
C2_AtMostOneStatefulExecuting ==
    Cardinality(StatefulHandlers \cap Running) <= 1

\* C2 as amended: at most one stateful operation is in flight (submitted and
\* awaited by the dispatcher) at any time and no lane executes two at once;
\* an operation whose call timed out may still be executing in the
\* background on its discarded lane.
C2_AtMostOneStatefulInFlight ==
    /\ Cardinality(StatefulHandlers \cap Awaited) <= 1
    /\ \A h, g \in StatefulHandlers \cap Running : h # g => h.lane # g.lane

\* In a later round a stateful call is executing on a lane created after an
\* earlier stateful call timed out.
C2_Witness ==
    /\ round = 2
    /\ lane_seq >= 2
    /\ \E h \in StatefulHandlers \cap Awaited : h.status = "running"

\* C3: tool-response messages are appended, and the next round is started,
\* only when every call of the batch has had exactly one result or timeout
\* substitute stored and no call is awaited any more.
C3_ResultsBeforeMessages ==
    [][(messages' # messages \/ round' # round) =>
          /\ Awaited = {}
          /\ AllStored(results)
          /\ \A i \in 1..Len(writes) : writes[i] = 1
          /\ \A i \in 1..Len(futures) : futures[i].state = "collected"]_vars

\* The messages of a round are in the list, one of its calls having been
\* answered by a timeout substitute while its handler is still running.
C3_Witness ==
    /\ mode = "idle"
    /\ Len(messages) >= 2
    /\ Background # {}

\* C4: a timeout result is marked is_error, and every dispatch completes
\* even if handlers never return, for stateful and other tools alike.
\* Violated: a call whose arguments are not a string raises out of the
\* dispatch, which then ends without its results.
C4_TimeoutCompletesDispatch ==
    /\ [](\A i \in 1..Len(results) :
             results[i].kind = "timeout" => results[i].is_error)
    /\ ((mode \in {"seq", "par"}) ~> (mode = "done"))

\* What holds of C4: every dispatch ends, with its results or with the
\* exception of a call.
DispatchEnds == (mode \in {"seq", "par"}) ~> (mode \in {"done", "raised"})

\* A batch is complete with a timeout result for a stateful and for another
\* tool, a timed-out handler still running.
C4_Witness ==
    /\ mode = "done"
    /\ \E i \in 1..Len(results) :
         /\ results[i].kind = "timeout"
         /\ results[i].is_error
         /\ results[i].fn_name \in STATEFUL_BROWSER_TOOLS
    /\ \E i \in 1..Len(results) :
         /\ results[i].kind = "timeout"
         /\ results[i].is_error
         /\ results[i].fn_name \notin STATEFUL_BROWSER_TOOLS
    /\ Background # {}

\* C5: after a stateful call timed out the lane it ran on is no longer the
\* sticky lane, its result says that state was reset, and a stateful call
\* that is awaited is on the current lane with a free worker or running.
C5_TimeoutResetsLane ==
    /\ \A h \in StatefulHandlers \cap Background :
         h.lane # stateful_executor
    /\ \A i \in 1..Len(results) :
         (results[i].kind = "timeout"
            /\ results[i].fn_name \in STATEFUL_BROWSER_TOOLS)
         => results[i].reset
    /\ \A h \in StatefulHandlers \cap Awaited :
         /\ h.lane = stateful_executor
         /\ h.status = "queued" => WorkerFree(h)

\* A stateful call runs on a fresh lane while the timed-out operation is
\* still running on the discarded one.
C5_Witness ==
    \E h \in StatefulHandlers \cap Background :
        \E g \in StatefulHandlers \cap Awaited :
            /\ g.status = "running"
            /\ g.lane > h.lane
            /\ stateful_executor = g.lane

\* C6: calls are in flight together only in a batch of more than one call,
\* all of read-only tools; in every other batch the calls are dispatched one
\* at a time in call order, each after the previous one has its result.
C6_ParallelOnlyReadOnly ==
    /\ (mode = "par" \/ Cardinality(Awaited) > 1) =>
          (Len(tool_calls) > 1 /\ AllReadOnly(tool_calls))
    /\ (tool_calls # <<>> /\ ~(Len(tool_calls) > 1 /\ AllReadOnly(tool_calls)))
          => /\ futures = <<>>
             /\ \A h \in Awaited :
                  /\ \A j \in 1..(h.idx - 1) : results[j] # NoResult
                  /\ \A j \in h.idx..Len(results) : results[j] = NoResult

\* The second call of a batch mixing a read-only and another tool is awaited
\* after the first one has its result.
C6_Witness ==
    /\ Len(tool_calls) = 2
    /\ tool_calls[1].name \in READ_ONLY_PARALLEL_TOOLS
    /\ tool_calls[2].name \notin READ_ONLY_PARALLEL_TOOLS
    /\ results[1] # NoResult
    /\ \E h \in Awaited : h.idx = 2

(***************************************************************************)
(* Properties of the fallback wrapper.                                     *)
(***************************************************************************)
\* C7: one model request makes at most N+1 attempts for a chain of length N,
\* whatever the entries of the chain.
C7_AtMostNPlusOneAttempts ==
    Len(attempt_log) <= Len(provider_chain) + 1

\* C8: when the attempt with the model at position i of the chain fails and
\* i is not the last position, the next attempt uses the entry at i+1.
C8_NextAttemptUsesNextEntry ==
    \A k \in 1..Len(errors) :
        LET a == attempt_log[k]
            i == IndexOf(provider_chain, a.model)
        IN  (a.model = a.provider /\ i > 0 /\ i < Len(provider_chain))
            => /\ Len(attempt_log) > k => attempt_log[k + 1].model = provider_chain[i + 1]
               /\ Len(attempt_log) = k => llm_pc = "attempt"

\* C9: when the failing model is the last entry of the chain, or the chain
\* is empty, no further attempt is made and the error raised is the error of
\* the failed attempt.
C9_NoFallbackRaisesUnderlying ==
    \A k \in 1..Len(errors) :
        (\/ provider_chain = <<>>
         \/ IndexOf(provider_chain, attempt_log[k].provider) = Len(provider_chain))
        => /\ Len(attempt_log) = k
           /\ llm_pc = "raised"
           /\ raised_error = errors[k]

\* C10: when the current model is not in a non-empty chain, a failure falls
\* back to the first entry of the chain.
C10_NotFoundFallsBackToFirst ==
    \A k \in 1..Len(errors) :
        (provider_chain # <<>>
           /\ attempt_log[k].provider \notin Range(provider_chain))
        => /\ Len(attempt_log) > k => attempt_log[k + 1].provider = provider_chain[1]
           /\ Len(attempt_log) = k =>
                 (llm_pc = "attempt" /\ current_provider = provider_chain[1])

(***************************************************************************)
(* Properties of _check_budget_limits.                                     *)
(***************************************************************************)
\* C11: when the task cost exceeds 50% of the remaining budget the check
\* appends one forcing system message, makes exactly one last model call
\* with no tools offered, and returns a final result, never None, whatever
\* the call returned.
C11_ForcedTermination ==
    (bud_pc = "returned" /\ budget_given /\ budget_remaining_usd > 0
        /\ 2 * task_cost > budget_remaining_usd)
    => /\ bud_messages = <<[role |-> "system", kind |-> "BUDGET LIMIT"]>>
       /\ Len(bud_llm_calls) = 1
       /\ bud_llm_calls[1].tools = "None"
       /\ bud_result.returned = "final"

\* The check returned a final result after a last call that asked for more
\* tools.
C11_Witness ==
    /\ bud_pc = "returned"
    /\ budget_remaining_usd > 0
    /\ bud_result.returned = "final"
    /\ Len(bud_llm_calls) = 1
    /\ bud_llm_calls[1].outcome.tool_calls

\* C12: on the forced path the returned text is never empty: when the last
\* call raised, returned no message or returned empty content, the text is
\* the generic budget-exhausted explanation.
C12_FinalTextNeverEmpty ==
    (bud_pc = "returned" /\ bud_result.returned = "final")
    => /\ bud_result.text \notin {"", "None"}
       /\ LET o == bud_llm_calls[1].outcome
          IN  (o.raises \/ ~o.has_msg \/ o.content \in {"", "None"})
              => bud_result.text = FinishReason

\* The last call raised and the check returned the generic explanation.
C12_Witness ==
    /\ bud_pc = "returned"
    /\ bud_result = [returned |-> "final", text |-> FinishReason]
    /\ Len(bud_llm_calls) = 1
    /\ bud_llm_calls[1].outcome.raises


(***************************************************************************)
(* Properties of apply_message_token_soft_cap.                             *)
(***************************************************************************)
Trimmed == cap_pc = "done" /\ EstimateTokens(cap_messages) > soft_cap_tokens

\* C13: the first element of the returned list is the first (system)
\* message of the input: capping never evicts it.
C13_SystemMessageKept ==
    cap_pc = "done" =>
        /\ cap_out.messages # <<>>
        /\ cap_out.messages[1] = cap_messages[1]

\* Capping evicted the whole history and the system message is what is left.
C13_Witness ==
    /\ Trimmed
    /\ Len(cap_messages) >= 2
    /\ cap_out.messages = <<cap_messages[1]>>
    /\ cap_messages[1].role = "system"

\* C14: the estimate of the capped output does not exceed the cap, unless
\* the system message alone exceeds it.
C14_OutputWithinCap ==
    cap_pc = "done" =>
        \/ EstimateTokens(cap_out.messages) <= soft_cap_tokens
        \/ EstimateTokens(<<cap_messages[1]>>) > soft_cap_tokens

\* A list over the cap was trimmed to the system message and some history,
\* within the cap.
C14_Witness ==
    /\ Trimmed
    /\ Len(cap_out.messages) >= 2
    /\ EstimateTokens(cap_out.messages) <= soft_cap_tokens

\* C15: the kept history is a suffix of the input's history: what is dropped
\* is a prefix of the chronological non-system messages.
C15_DroppedIsPrefix ==
    cap_pc = "done" =>
        \E k \in 2..(Len(cap_messages) + 1) :
            cap_out.messages =
                <<cap_messages[1]>> \o SubSeq(cap_messages, k, Len(cap_messages))

\* The oldest message of the history was dropped and the newer ones kept,
\* although the dropped one is no larger than a kept one.
C15_Witness ==
    /\ Trimmed
    /\ Len(cap_messages) = 3
    /\ cap_out.messages = <<cap_messages[1], cap_messages[3]>>
    /\ cap_messages[2].tokens <= cap_messages[3].tokens

\* C16 as stated: when a list over the cap is trimmed, the newest message of
\* the input is present in the output.
C16_NewestAlwaysKept ==
    (Trimmed /\ Len(cap_messages) >= 2) =>
        cap_messages[Len(cap_messages)] \in Range(cap_out.messages)

\* C16 as amended: when a list over the cap is trimmed, the newest message
\* is present in the output if it fits under the cap together with the
\* system message; if it does not, the output is the system message alone.
C16_NewestKeptIfItFits ==
    (Trimmed /\ Len(cap_messages) >= 2) =>
        LET newest == cap_messages[Len(cap_messages)]
        IN  IF EstimateTokens(<<cap_messages[1], newest>>) <= soft_cap_tokens
            THEN newest \in Range(cap_out.messages)
            ELSE cap_out.messages = <<cap_messages[1]>>

\* A trimmed list of three messages kept the newest and dropped the one
\* before it.
C16_Witness ==
    /\ Trimmed
    /\ Len(cap_messages) = 3
    /\ cap_messages[3] \in Range(cap_out.messages)
    /\ cap_messages[2] \notin Range(cap_out.messages)


(***************************************************************************)
(* Properties of the soft token cap selection.                             *)
(***************************************************************************)

\* C17: whatever the model identifier, an evolution task never receives
\* more than the strict evolution cap.  Violated: a listed provider prefix
\* returns its own limit before the task type is looked at.
C17_EvolutionGetsStrictCap ==
    (lim_pc = "done" /\ task_type = "evolution")
        => lim_out <= EVOLUTION_LIMIT


(***************************************************************************)
(* Properties of the lazy pricing table.                                   *)
(***************************************************************************)

\* C18: across all _get_pricing calls of a process the remote fetch is
\* attempted at most once.  Violated: the handler clears _pricing_fetched,
\* so the call after a failed fetch fetches again.
C18_FetchAttemptedAtMostOnce == Len(fetches) <= 1

\* C19: every table _get_pricing has returned contains every key of the
\* static table, whichever path returned it (fast path, re-check under the
\* lock, after a fetch, after a failed fetch), and so does the cached table.
C19_StaticKeysAlwaysPresent ==
    /\ \A i \in 1..Len(returned_tables) :
          /\ returned_tables[i].table # 0
          /\ StaticKeys \subseteq DOMAIN dicts[returned_tables[i].table]
    /\ cached_pricing # 0 => StaticKeys \subseteq DOMAIN dicts[cached_pricing]

\* a failed fetch returned a table, a later fetch merged live entries into
\* the cache, and a fast-path call returned while another thread refreshed
C19_Witness ==
    /\ \E i \in 1..Len(returned_tables) : returned_tables[i].path = "failed"
    /\ \E i \in 1..Len(returned_tables) :
          /\ returned_tables[i].path = "fetched"
          /\ "l1" \in DOMAIN dicts[returned_tables[i].table]
    /\ \E i \in 1..Len(returned_tables) :
          /\ returned_tables[i].path = "fast"
          /\ returned_tables[i].refreshing


(***************************************************************************)
(* Properties of the cost estimate.                                        *)
(***************************************************************************)
\* the items of model_pricing as the call last read them
SeenTable == cost_loop.seen

ExactKeys == {i \in 1..Len(SeenTable) : SeenTable[i].key = cost_model}

PrefixKeys ==
    {i \in 1..Len(SeenTable) : StartsWith(cost_model, SeenTable[i].key)}

\* the longest key among the prefixes, the first of them when lengths tie
LongestPrefix ==
    CHOOSE i \in PrefixKeys :
        \A j \in PrefixKeys :
            \/ Len(SeenTable[i].key) > Len(SeenTable[j].key)
            \/ Len(SeenTable[i].key) = Len(SeenTable[j].key) /\ i <= j

LongerPrefixSelected ==
    /\ cost_pc = "done"
    /\ ExactKeys = {}
    /\ \E i, j \in PrefixKeys :
          /\ i < j
          /\ Len(SeenTable[i].key) < Len(SeenTable[j].key)
          /\ cost_out.pricing = SeenTable[j].val


\* the claim's formula, in thousandths of a millionth of a dollar
C21_Formula ==
    (cost_tokens.prompt - cost_tokens.cached) * cost_out.pricing.prices[1]
        + cost_tokens.cached * cost_out.pricing.prices[2]
        + cost_tokens.completion * cost_out.pricing.prices[3]

\* C21: for a priced model and any non-negative token counts the estimate
\* is (prompt - cached) * input + cached * cached_price + completion *
\* output, per million tokens, rounded to the millionth.  Violated: an
\* entry merged from the live table cannot be unpacked, and with more
\* cached than prompt tokens the input term is clamped at 0.
C21_CostMatchesFormula ==
    (cost_pc = "done" /\ Truthy(cost_out.pricing)) =>
        /\ cost_out.raised = "None"
        /\ cost_out.pricing.kind = "tuple"
        /\ 1000 * cost_out.cost - C21_Formula <= 500
        /\ C21_Formula - 1000 * cost_out.cost <= 500


(***************************************************************************)
(* Properties of usage recording in run_model.                             *)
(***************************************************************************)

\* the run_model entries that have returned a response: every entry that
\* neither failed nor is still inside run_model
CompletedCalls ==
    Len(attempt_log) - Len(errors) - (IF llm_pc = "pricing" THEN 1 ELSE 0)

\* C22: an llm_usage event is recorded only for a model call that has
\* completed, never for one that has not returned or that failed: there
\* are no more events than completed calls.
C22_UsageOnlyForCompletedCalls == Len(pending_events) <= CompletedCalls

\* two attempts have failed, the second one the retry of the fallback, the
\* error has left run_model, and no usage event was recorded
C22_Witness ==
    /\ llm_pc = "raised"
    /\ Len(attempt_log) = 2
    /\ Len(errors) = 2
    /\ pending_events = <<>>


(***************************************************************************)
(* Properties of single tool execution.                                    *)
(***************************************************************************)
StartsWithMarker(text) == StartsWith(text, <<WARNING_MARKER>>)

\* C23: a result is flagged is_error exactly when its text begins with the
\* warning marker, whether the failure is an argument error, a handler
\* exception, a timeout or a failure text the handler returned.
C23_ErrorIffMarker ==
    \A i \in 1..Len(ex_results) :
        ex_results[i].is_error <=> StartsWithMarker(ex_results[i].result)

\* a failure text returned by a handler is flagged next to a returned text
\* that holds the marker further in and is not flagged
C23_Witness ==
    /\ \E i \in 1..Len(ex_results) :
          /\ ex_results[i].kind = "result"
          /\ ex_results[i].is_error
    /\ \E i \in 1..Len(ex_results) :
          /\ ex_results[i].kind = "result"
          /\ ~ex_results[i].is_error
          /\ WARNING_MARKER \in Range(ex_results[i].result)

MalformedArguments == {"bad_json", "non_object", "not_string", "too_deep"}

\* C24: every malformed argument payload gives a warning result flagged
\* is_error and nothing is raised.  Violated: a payload that is not text
\* makes json.loads raise TypeError, which is not among the caught errors,
\* and JSON that is not an object is handed to the handler as it is.
C24_MalformedArgumentsGiveWarning ==
    /\ ex_raised = "None"
    /\ \A i \in 1..Len(ex_results) :
          ex_calls[i].arguments \in MalformedArguments =>
              /\ ex_results[i].is_error
              /\ StartsWithMarker(ex_results[i].result)

\* C25: every call that has got its result has a record in tools.jsonl
\* with sanitized arguments and a preview of the result.  Violated: the
\* argument-error return comes before the append.
C25_EveryCallAudited ==
    \A i \in 1..Len(ex_results) :
        \E k \in 1..Len(tools_log) :
            /\ tools_log[k].call = i
            /\ tools_log[k].result_preview = ex_results[i].result

\* C26: every call whose result is flagged is_error has a record in
\* events.jsonl, of whatever type.  Violated: the argument-error return
\* appends none, and for a failure text returned by the handler there is
\* none unless the handler wrote one itself.
C26_EveryFailureInEventLog ==
    \A i \in 1..Len(ex_results) :
        ex_results[i].is_error =>
            \E k \in 1..Len(events_log) : events_log[k].call = i

\* C27: nothing running on a tool worker thread writes the usage-event
\* sink.  Violated: the vision tool calls _emit_usage, which puts the
\* event on ctx.event_queue from the thread the tool runs on.
C27_WorkersNeverWriteSink ==
    \A k \in 1..Len(event_queue) : event_queue[k].thread = "orchestrator"

ToolErrorEventsOf(i) ==
    {k \in 1..Len(events_log) :
        events_log[k].call = i /\ events_log[k].type = "tool_error"}

\* C28: a call whose handler raised has a warning result flagged is_error
\* and exactly one tool_error event, and the dispatch has moved on to the
\* calls after it.
C28_HandlerExceptionCaught ==
    \A i \in 1..Len(ex_results) :
        ex_results[i].kind = "tool_error" =>
            /\ ex_results[i].is_error
            /\ StartsWithMarker(ex_results[i].result)
            /\ Cardinality(ToolErrorEventsOf(i)) = 1
            /\ ex_idx > i

\* the handler of the first call raised and the second call was executed
\* to its result
C28_Witness ==
    /\ ex_pc = "done"
    /\ Len(ex_results) = 2
    /\ ex_results[1].kind = "tool_error"
    /\ ex_results[2].kind = "result"


(***************************************************************************)
(* Properties of the worker pool.                                          *)
(***************************************************************************)

\* C29: at most min(K, 8) calls of a parallel batch are in flight at any
\* moment, and a call that had to wait for a free worker is still
\* completed.  Violated: when future.result() re-raises the exception of
\* one call, the shutdown cancels the calls still queued.
C29_BoundedAndAllCompleted ==
    /\ Cardinality(InFlight) <= Min(Len(pool_calls), MAX_POOL_WORKERS)
    /\ \A i \in 1..Len(pool_futures) : pool_futures[i] # "cancelled"


(***************************************************************************)
(* Properties of the sticky lane.                                          *)
(***************************************************************************)

\* A stateful call enters _execute_with_timeout in this step.
NewStatefulHandlers ==
    {h \in handlers' : /\ h.name \in STATEFUL_BROWSER_TOOLS
                       /\ \A g \in handlers : g.id # h.id}

\* A stateful call times out in this step: its result says state was reset.
StatefulTimeoutStep ==
    \E i \in 1..Len(results) :
        /\ results[i] = NoResult
        /\ i \in 1..Len(results')
        /\ results'[i].kind = "timeout"
        /\ results'[i].reset

\* The owner shuts the lane down in this step.
ShutdownStep ==
    /\ mode = "idle"
    /\ mode' = "idle"
    /\ round' = round
    /\ handlers' = handlers

\* C30: as long as no stateful call times out and the lane is not shut
\* down, every stateful call, in the same round or a later one, is
\* submitted to the one existing lane; a new lane is created only when
\* there is none, and the lane is given up only by the reset of a stateful
\* timeout or by a shutdown.
C30_SameLaneUntilReset ==
    [][/\ lane_seq' # lane_seq =>
            /\ stateful_executor = 0
            /\ lane_seq' = lane_seq + 1
            /\ stateful_executor' = lane_seq'
       /\ (stateful_executor # 0 /\ stateful_executor' # stateful_executor) =>
            /\ stateful_executor' = 0
            /\ StatefulTimeoutStep \/ ShutdownStep
       /\ \A h \in NewStatefulHandlers :
            /\ h.lane = stateful_executor'
            /\ stateful_executor # 0 => h.lane = stateful_executor]_vars

\* In the second round the first stateful call has returned its result and
\* the second one is running on the same lane, the only lane ever created.
C30_Witness ==
    /\ round = 2
    /\ lane_seq = 1
    /\ Len(results) = 2
    /\ results[1].kind = "result"
    /\ results[1].fn_name \in STATEFUL_BROWSER_TOOLS
    /\ \E h \in StatefulHandlers \cap Running :
         /\ h.idx = 2
         /\ h.lane = 1
         /\ stateful_executor = 1


(***************************************************************************)
(* Properties of the advisory paths of the round loop.                     *)
(***************************************************************************)

\* C31: when no budget is given or the task cost is at most 50% of the
\* remaining budget, the check makes no model call and returns None; it
\* appends exactly one advisory system message when the cost exceeds 30% of
\* the budget and round_idx is a multiple of 10, and no message otherwise.
C31_AdvisoryOnly ==
    (/\ bud_pc = "returned"
     /\ \/ ~budget_given
        \/ (budget_remaining_usd > 0 /\ 2 * task_cost <= budget_remaining_usd))
    => /\ bud_llm_calls = <<>>
       /\ bud_result = [returned |-> "None", text |-> ""]
       /\ bud_messages =
            IF /\ budget_given
               /\ 10 * task_cost > 3 * budget_remaining_usd
               /\ round_idx % 10 = 0
            THEN <<[role |-> "system", kind |-> "INFO"]>>
            ELSE <<>>

\* At exactly 50% of the budget, on a round that is a multiple of 10, the
\* check returned None after appending the advisory message.
C31_Witness ==
    /\ bud_pc = "returned"
    /\ budget_given
    /\ budget_remaining_usd > 0
    /\ 2 * task_cost = budget_remaining_usd
    /\ round_idx % 10 = 0
    /\ bud_messages = <<[role |-> "system", kind |-> "INFO"]>>
    /\ bud_result.returned = "None"


\* C40: when the remaining budget is zero or negative the budget fraction
\* is 100%: the check forces termination, with the forcing message and one
\* last model call, whatever the task has spent.
C40_NoBudgetLeftForcesFinal ==
    (bud_pc = "returned" /\ budget_given /\ budget_remaining_usd <= 0)
    => /\ bud_result.returned = "final"
       /\ Len(bud_llm_calls) = 1
       /\ bud_messages = <<[role |-> "system", kind |-> "BUDGET LIMIT"]>>

\* The task has spent nothing, the remaining budget is zero, and the check
\* returned a final result.
C40_Witness ==
    /\ bud_pc = "returned"
    /\ budget_given
    /\ budget_remaining_usd = 0
    /\ task_cost = 0
    /\ bud_result.returned = "final"


(***************************************************************************)
(* Properties of the fallback retry.                                       *)
(***************************************************************************)

\* C38: a fallback retry is entered with the same request as the failed
\* attempt: the same system text, prompt and images.  Violated:
\* _handle_fallback calls run_model(ctx), and the retry runs with the
\* defaults of the three arguments.
C38_RetrySendsSameRequest ==
    \A k \in 2..Len(attempt_log) :
        attempt_log[k].args = attempt_log[k - 1].args


\* C32: _maybe_inject_self_check appends exactly one checkpoint system
\* message when round_idx is greater than 1 and a multiple of 50 and does
\* nothing on every other round; the messages it was given stay as they
\* are, the usage ledger is unchanged, and the function returns.
\* Violated: on a due round a message whose content is None or a number
\* makes the token sum raise TypeError, which leaves the function with no
\* reminder appended.
C32_SelfCheckIsAdvisory ==
    [][/\ sc_pc' = "returned"
       /\ sc_usage' = sc_usage
       /\ IF sc_round_idx > 1 /\ sc_round_idx % 50 = 0
          THEN /\ Len(sc_messages') = Len(sc_messages) + 1
               /\ SubSeq(sc_messages', 1, Len(sc_messages)) = sc_messages
               /\ sc_messages'[Len(sc_messages')].role = "system"
               /\ sc_messages'[Len(sc_messages')].kind = "CHECKPOINT"
          ELSE /\ sc_messages' = sc_messages
               /\ sc_progress' = sc_progress]_vars

(***************************************************************************)
(* Properties of the usage events.                                         *)
(***************************************************************************)

\* C33: every llm_usage event emitted, by whichever emitter, carries a
\* non-empty model identifier.  Violated: only the vision tool substitutes
\* the sentinel; the consciousness emits the model it has.
C33_ModelNeverEmpty ==
    \A k \in 1..Len(usage_events) :
        usage_events[k].model \notin {"", "None"}


(***************************************************************************)
(* Further properties of apply_message_token_soft_cap.                     *)
(***************************************************************************)

\* C34: the input list is returned unchanged when its estimate is within
\* the cap, and in every case cap_info reports the cap as requested and the
\* estimate of the returned list as actual.
C34_UnchangedAndReported ==
    cap_pc = "done" =>
        /\ cap_out.cap_info.requested = soft_cap_tokens
        /\ cap_out.cap_info.actual = EstimateTokens(cap_out.messages)
        /\ EstimateTokens(cap_messages) <= soft_cap_tokens
              => cap_out.messages = cap_messages

\* A list over the cap was trimmed to the system message and part of the
\* history, and the reported total is below the estimate of the input.
C34_Witness ==
    /\ cap_pc = "done"
    /\ EstimateTokens(cap_messages) > soft_cap_tokens
    /\ Len(cap_out.messages) >= 2
    /\ Len(cap_out.messages) < Len(cap_messages)
    /\ cap_out.cap_info.actual < EstimateTokens(cap_messages)

\* The last j messages of a list.
Suffix(msgs, j) == SubSeq(msgs, Len(msgs) - j + 1, Len(msgs))

\* The length of the longest suffix of the history that fits under the cap
\* together with the system message, 0 when none does.
LongestFit(msgs, cap) ==
    LET system == <<Head(msgs)>>
        history == Tail(msgs)
        fit == {j \in 0..Len(history) :
                   EstimateTokens(system \o Suffix(history, j)) <= cap}
    IN  IF fit = {} THEN 0 ELSE CHOOSE j \in fit : \A i \in fit : i <= j

\* C35: when capping trims, the output is the system message followed, in
\* their original order, by the longest suffix of the history that fits
\* under the cap together with the system message; an older message is not
\* admitted past a message that does not fit.
C35_LongestFittingSuffix ==
    (cap_pc = "done" /\ EstimateTokens(cap_messages) > soft_cap_tokens)
    => cap_out.messages =
          <<Head(cap_messages)>>
          \o Suffix(Tail(cap_messages), LongestFit(cap_messages, soft_cap_tokens))

\* Trimming kept the newest message and stopped at one that did not fit,
\* leaving out an older message that would still have fitted.
C35_Witness ==
    /\ cap_pc = "done"
    /\ EstimateTokens(cap_messages) > soft_cap_tokens
    /\ Len(cap_out.messages) >= 2
    /\ \E i \in 2..Len(cap_messages) :
         /\ \A k \in 1..Len(cap_out.messages) :
               cap_out.messages[k].id # cap_messages[i].id
         /\ cap_out.cap_info.actual + cap_messages[i].tokens <= soft_cap_tokens


\* Message i of the input is in the capped output.
KeptByCap(i) ==
    \E k \in 1..Len(cap_out.messages) :
        cap_out.messages[k].id = cap_messages[i].id

\* The assistant message a tool response answers: the nearest one before it.
OriginOf(i) ==
    CHOOSE j \in 1..(i - 1) :
        /\ cap_messages[j].role = "assistant"
        /\ \A l \in (j + 1)..(i - 1) : cap_messages[l].role = "tool"

\* C36: an assistant tool-call message and its tool responses are kept or
\* dropped together: the capped output holds no tool response whose
\* assistant message was dropped.  Violated: the loop keeps a suffix of the
\* history wherever it ends, also between an assistant message and its
\* responses.
C36_ToolCallGroupsIntact ==
    cap_pc = "done" =>
        \A i \in 2..Len(cap_messages) :
            cap_messages[i].role = "tool"
               => (KeptByCap(i) <=> KeptByCap(OriginOf(i)))


(***************************************************************************)
(* Properties of the audit log under timeouts.                             *)
(***************************************************************************)

\* C37: each dispatched call has at most one record in tools.jsonl and at
\* most one result in the round, also when it timed out and its handler
\* finished later.  Violated: the timeout substitute writes a record, and
\* the handler left running writes its own when it ends.
C37_AtMostOneRecordAndResult ==
    \A i \in 1..Len(ex_calls) :
        /\ Cardinality({k \in 1..Len(tools_log) : tools_log[k].call = i}) <= 1
        /\ Cardinality({k \in 1..Len(ex_results) :
                           ex_results[k].tool_call_id = i}) <= 1


(***************************************************************************)
(* Properties of _get_pricing under concurrent callers.                    *)
(***************************************************************************)

\* The threads between the call of the fetch and the end of its handling.
Fetching == {t \in ThreadIds : threads[t].pc \in {"fetch", "merge", "except"}}

\* C39: with several threads in _get_pricing, at most one is performing
\* the remote fetch at any time, no fetch is started after one that
\* returned without raising, and every table a caller received exists and
\* is not empty.
C39_OneFetcherNoEmptyTable ==
    /\ Cardinality(Fetching) <= 1
    /\ \A k \in 1..Len(fetches) : fetches[k] # "raise" => k = Len(fetches)
    /\ \A k \in 1..Len(returned_tables) :
         /\ returned_tables[k].table # 0
         /\ DOMAIN dicts[returned_tables[k].table] # {}

\* One thread's fetch succeeded while the other was in the function: the
\* other one got a table during the refresh, and both made all their calls.
C39_Witness ==
    /\ Len(fetches) >= 1
    /\ fetches[Len(fetches)] = "large"
    /\ \E k \in 1..Len(returned_tables) : returned_tables[k].refreshing
    /\ \A t \in ThreadIds :
         threads[t].pc = "idle" /\ threads[t].calls = MaxCalls


=============================================================================
